---- MODULE Spec2Model ----
(***************************************************************************)
(* Position lifecycle engine of AUTORUNBOT: the position store             *)
(* (state_manager.py), the order submission protocol and the four trade    *)
(* operations (order_executor.py), the periodic monitor                    *)
(* (position_monitor.py) and the scheduler loop (main.py).                 *)
(*                                                                         *)
(* Money is counted in tenths of a USDT, so that TAKE_PROFIT_VALUE = 0.2   *)
(* is 2 and a price of 100.0 is 1000.                                      *)
(***************************************************************************)
EXTENDS Integers, Sequences, FiniteSets, TLC

\* ------------------------------------------------------------------ bounds
MaxContracts == 2          \* largest order size the allocator returns here
MaxSignals == 1            \* longest signal list

\* ------------------------------------------------------- program constants
MAX_RETRY_ON_FAILURE == 3
MAX_ADD_TIMES == 3
MAX_REDUCE_TIMES == 2
MAX_HOLDING_SYMBOLS == 100
TAKE_PROFIT_VALUE == 2
STOP_LOSS_PCT == -5
MAX_WAIT == 8
REQUIRE_PROFIT_TO_CLOSE == TRUE
MIN_PROFIT_TO_RESERVE == 100   \* 5.0 USDT in twentieths, the reserve's unit

Symbols == {"X"}
Dirs == {"buy", "sell"}
Ops == {"open", "add", "reduce", "close"}
Confs == {2, 4}
EntryPrice == 1000         \* entry price of the positions found in the table
\* market prices: unavailable (0), 5 % below the entry price, at it, and
\* 1.0 USDT above it
Prices == {0, EntryPrice - EntryPrice \div 20, EntryPrice, EntryPrice + 10}

NoPos == [direction |-> "none", contracts |-> 0, price |-> 0, confidence |-> 0,
          add_times |-> 0, reduce_times |-> 0]
EmptyMap == [s \in Symbols |-> NoPos]
Absent == -1               \* a key that an `extra` dict does not carry

Held(positions) == {s \in DOMAIN positions : positions[s] # NoPos}

\* ------------------------------------------------------------ the store
\* st = [lock, cache, cacheValid, db]: _lock, _position_cache,
\* _position_cache_time ("fresh", or "stale": None or 5 s old) and the
\* position_state table.

\* threading.Lock(): acquire succeeds only when nobody holds the lock,
\* the caller included (LockReentrant is what an RLock would allow).
LockReentrant(lock, t) == lock = "free" \/ lock = t
CanAcquire(lock, t) == lock = "free"

\* load_position_state: the cache answers while it is fresh; otherwise the
\* table is read under _lock and the result becomes the cache.
load_position_state(st, t, force_reload) ==
  IF ~force_reload /\ st.cacheValid = "fresh"
  THEN [st |-> st, blocked |-> FALSE, val |-> st.cache]
  ELSE IF ~CanAcquire(st.lock, t)
       THEN [st |-> st, blocked |-> TRUE, val |-> EmptyMap]
       ELSE [st |-> [st EXCEPT !.cache = st.db, !.cacheValid = "fresh"],
             blocked |-> FALSE, val |-> st.db]

\* _save_position_state: under _lock, one upsert per entry of the dict; rows
\* of symbols that are not in the dict are left as they are
\* (SaveDeletesMissing is a save that rewrites the table from the dict).
SaveDeletesMissing(st, t, positions) ==
  IF ~CanAcquire(st.lock, t)
  THEN [st |-> st, blocked |-> TRUE]
  ELSE [st |-> [st EXCEPT !.db = positions], blocked |-> FALSE]
save_position_state(st, t, positions) ==
  IF ~CanAcquire(st.lock, t)
  THEN [st |-> st, blocked |-> TRUE]
  ELSE [st |-> [st EXCEPT !.db = [s \in Symbols |->
                  IF positions[s] # NoPos THEN positions[s] ELSE st.db[s]]],
        blocked |-> FALSE]

\* The body shared by the three mutators: `with _lock:` around
\* load_position_state(), a change of the returned dict (which is the cache
\* object itself) and _save_position_state().  Loaded is the dict that
\* load_position_state() returns to a mutator that holds the lock, positions
\* that dict after the mutator's change; where = "outer" / "load" / "save"
\* names the acquire the call is stuck in, "" when it returned.
Loaded(st, t) == load_position_state([st EXCEPT !.lock = t], t, FALSE).val
Mutate(st, t, positions) ==
  IF ~CanAcquire(st.lock, t)
  THEN [st |-> st, blocked |-> TRUE, where |-> "outer"]
  ELSE LET st1 == [st EXCEPT !.lock = t]
           l == load_position_state(st1, t, FALSE)
       IN IF l.blocked
          THEN [st |-> st1, blocked |-> TRUE, where |-> "load"]
          ELSE LET st2 == [l.st EXCEPT !.cache = positions]
                   s == save_position_state(st2, t, positions)
               IN IF s.blocked
                  THEN [st |-> st2, blocked |-> TRUE, where |-> "save"]
                  ELSE [st |-> [s.st EXCEPT !.lock = st.lock],
                        blocked |-> FALSE, where |-> ""]

ApplyExtra(pos, extra) ==
  [pos EXCEPT !.add_times = IF extra.add_times = Absent THEN @ ELSE extra.add_times,
              !.reduce_times = IF extra.reduce_times = Absent THEN @ ELSE extra.reduce_times]

update_position_state(st, t, symbol, direction, contracts, price, confidence, extra, add) ==
  LET change(positions) ==
        LET cur == positions[symbol]
            new == IF cur = NoPos
                   THEN [direction |-> direction, contracts |-> contracts,
                         price |-> price, confidence |-> confidence,
                         add_times |-> 0, reduce_times |-> 0]
                   ELSE [cur EXCEPT !.contracts = IF add THEN @ + contracts ELSE contracts,
                                    !.price = price, !.confidence = confidence]
        IN [positions EXCEPT ![symbol] = ApplyExtra(new, extra)]
  IN Mutate(st, t, change(Loaded(st, t)))

update_position_after_reduce(st, t, symbol, reduced_contracts, new_reduce_times) ==
  LET change(positions) ==
        IF positions[symbol] = NoPos THEN positions
        ELSE LET p1 == [positions[symbol] EXCEPT
                          !.contracts = @ - reduced_contracts,
                          !.reduce_times = IF new_reduce_times = Absent THEN @
                                           ELSE new_reduce_times]
             IN [positions EXCEPT ![symbol] = IF p1.contracts <= 0 THEN NoPos ELSE p1]
  IN Mutate(st, t, change(Loaded(st, t)))

remove_position(st, t, symbol) ==
  LET change(positions) == [positions EXCEPT ![symbol] = NoPos]
  IN Mutate(st, t, change(Loaded(st, t)))


\* --------------------------------------------------- the exchange gateway
\* What the exchange answers to POST /api/v5/trade/order, as far as
\* place_order and send_order look at it: a JSON body that is no object, or
\* an object with a code and a data list whose first item may carry an order
\* id and an insufficient-margin message.  {} (what _signed_request returns
\* after three transport failures) is code "none" with empty data.
Codes == {"0", "50113", "1", "none"}
DataKinds == {"empty", "noid", "id", "noid_margin", "id_margin"}
DictBodies == [code : Codes, data : DataKinds]
Bodies == {[code |-> "nondict", data |-> "empty"]} \cup DictBodies
Statuses == {"filled", "partial-filled", "live", "none"}

HasOrdId(resp) == resp.data \in {"id", "id_margin"}
HasMarginMsg(resp) == resp.data \in {"noid_margin", "id_margin"}

\* place_order: returns the body, or raises when the body has no .get or
\* when the code is "0" and data[0] does not exist.
place_order(body) ==
  IF body.code = "nondict" THEN "raise"
  ELSE IF body.code = "0" /\ body.data = "empty" THEN "raise"
  ELSE "return"

\* get_order_status: the state of the order, None when the query failed.
StatusFilled(status) == status \in {"filled", "partial-filled"}

\* resp.get("code", "0")
CodeOf(resp) == IF resp.code = "none" THEN "0" ELSE resp.code
NonRetryable(resp) == CodeOf(resp) = "50113" \/ HasMarginMsg(resp)

\* One pass through the body of send_order's retry loop for the attempt's
\* outcome: "ok" (return data[0]), "fail" (return None), "retry" (sleep and
\* continue).
AttemptNoPoll(outcome, resp, status) ==
  IF outcome = "raise" THEN "fail"
  ELSE IF resp.code = "nondict" THEN "retry"
  ELSE IF HasOrdId(resp) THEN "ok"
  ELSE IF CodeOf(resp) = "50113" THEN "fail"
  ELSE IF HasMarginMsg(resp) THEN "fail"
  ELSE "retry"
AttemptRetryFatal(outcome, resp, status) ==
  IF outcome = "raise" THEN "fail"
  ELSE IF resp.code = "nondict" THEN "retry"
  ELSE IF HasOrdId(resp) /\ StatusFilled(status) THEN "ok"
  ELSE "retry"
send_order_attempt(outcome, resp, status) ==
  IF outcome = "raise" THEN "fail"
  ELSE IF resp.code = "nondict" THEN "retry"
  ELSE IF HasOrdId(resp) /\ StatusFilled(status) THEN "ok"
  ELSE IF CodeOf(resp) = "50113" THEN "fail"
  ELSE IF HasMarginMsg(resp) THEN "fail"
  ELSE "retry"

\* for attempt in range(1, max_retry + 1)
RetryOneMore(attempt) == attempt <= MAX_RETRY_ON_FAILURE
AttemptsLeft(attempt) == attempt < MAX_RETRY_ON_FAILURE

Min(a, b) == IF a < b THEN a ELSE b
Max(a, b) == IF a > b THEN a ELSE b
NextWait(wait_time) == Min(wait_time * 2, MAX_WAIT)

\* the body place_order posts, with HEDGE_MODE_ENABLED at its default (no
\* posSide): side, sz and, for reduce_only, reduceOnly
place_order_body(direction, size, reduce_only) ==
  [side |-> IF direction = "buy" THEN "buy" ELSE "sell", sz |-> size,
   reduceOnly |-> reduce_only]

\* get_order_params
\* (params_keep_side gives an exit order the side of the position)
params_keep_side(position_direction, action) ==
  [dir |-> position_direction, reduce_only |-> action \notin {"open", "add"}]
get_order_params(position_direction, action) ==
  IF action \in {"open", "add"}
  THEN [dir |-> position_direction, reduce_only |-> FALSE]
  ELSE [dir |-> IF position_direction = "buy" THEN "sell" ELSE "buy",
        reduce_only |-> TRUE]

\* check_position_conflict_and_limit
\* (check_conflict_only leaves the count of held symbols out)
NoConflictCheck(symbol, direction, position_state, max_symbols) == TRUE
check_conflict_only(symbol, direction, position_state, max_symbols) ==
  LET opposite_direction == IF direction = "sell" THEN "buy" ELSE "sell"
  IN ~(position_state[symbol] # NoPos
       /\ position_state[symbol].direction = opposite_direction)
check_position_conflict_and_limit(symbol, direction, position_state, max_symbols) ==
  LET opposite_direction == IF direction = "sell" THEN "buy" ELSE "sell"
  IN IF position_state[symbol] # NoPos
        /\ position_state[symbol].direction = opposite_direction
     THEN FALSE
     ELSE IF position_state[symbol] = NoPos
             /\ Cardinality(Held(position_state)) >= max_symbols
          THEN FALSE
          ELSE TRUE

\* (price - entry_price) * contracts, sign by direction
Pnl(direction, price, entry_price, contracts) ==
  IF direction = "buy" THEN (price - entry_price) * contracts
  ELSE (entry_price - price) * contracts


\* ------------------------------------------------------------------ state
VARIABLES
  store,       \* [lock, cache, cacheValid, db] of state_manager
  tradeLog,    \* trade_logs table, a sequence of [symbol, operation]
  reserve,     \* reserved_profit.reserved, in twentieths of a USDT
  th,          \* the control state and the locals of each thread
  closed,      \* symbols whose position a filled order closed, until an open fills
  last         \* the previous cycle: its entry point and what it read

vars == <<store, tradeLog, reserve, th, closed, last>>

Threads == {"main", "exec", "mon"}
SymOrder == <<"X">>           \* row order of the position_state table

Entries == [symbol : Symbols, direction : Dirs, confidence : Confs, operation : Ops]
\* json_results/latest_selection.json, the signal list
SignalLists == UNION {[1..n -> Entries] : n \in 0..MaxSignals}
\* okx_client.get_market_price of each symbol during one cycle
Markets == [Symbols -> Prices]
NoMarket == [s \in Symbols |-> 0]

\* load_latest_selection: the list as a dict keyed by symbol (a later entry
\* of a symbol replaces an earlier one), here the confidence of each symbol's
\* entry, 0 for a symbol without one
NoLatest == [s \in Symbols |-> 0]
RECURSIVE load_latest_selection(_)
load_latest_selection(list) ==
  IF list = <<>> THEN NoLatest
  ELSE LET e == list[Len(list)]
           head == load_latest_selection(SubSeq(list, 1, Len(list) - 1))
       IN [head EXCEPT ![e.symbol] = e.confidence]

\* rows that an earlier run of the program left in state_manager.db
SeedPos == {p \in [direction : Dirs, contracts : 1..MaxContracts, price : {EntryPrice},
                     confidence : {4}, add_times : {0, MAX_ADD_TIMES},
                     reduce_times : {0, MAX_REDUCE_TIMES}] :
              p.add_times = 0 \/ p.reduce_times = 0}

\* locals of a thread.  entries / market: what the cycle read from
\* latest_selection.json and from the exchange; placed: it called
\* place_order; repeat: it read what the previous cycle of the same entry
\* point had read; prior: and that previous cycle had an order confirmed;
\* alloc: the arguments and the result of a size estimate; ledger: those of
\* a call that touches the profit reserve; loop: main_loop's locals.
NoAlloc == [outcome |-> "none"]
NoLedger == [kind |-> "none"]
NoLoop == [halt |-> "none"]
NoWatch == [kind |-> "none"]
NoLimit == [kind |-> "none"]
L0 == [pc |-> "idle", handler |-> "none", entries |-> <<>>, idx |-> 0,
       market |-> NoMarket, placed |-> FALSE, repeat |-> FALSE, prior |-> FALSE,
       snapshot |-> EmptyMap, latest |-> NoLatest,
       sym |-> "X", dir |-> "none", conf |-> 0, op |-> "none", ret |-> "none",
       order_dir |-> "none", reduce_only |-> FALSE, contracts |-> 0,
       price |-> 0, entry_price |-> 0, add_times |-> 0, pos |-> NoPos,
       attempt |-> 0, wait_time |-> 1, slept |-> 0, result |-> "none",
       had_id |-> FALSE, filled |-> FALSE, fatal |-> FALSE, raised |-> FALSE,
       all_retry |-> TRUE, accepted |-> 0, trade |-> FALSE, where |-> "",
       alloc |-> NoAlloc, ledger |-> NoLedger, loop |-> NoLoop, watch |-> NoWatch, limit |-> NoLimit,
       max_retry |-> MAX_RETRY_ON_FAILURE]

Last0 == [handler |-> "none", entries |-> <<>>, latest |-> NoLatest,
          market |-> NoMarket, applied |-> FALSE]

Init ==
  /\ \E d \in [Symbols -> SeedPos \cup {NoPos}] :
       store = [lock |-> "free", cache |-> EmptyMap, cacheValid |-> "stale", db |-> d]
  /\ tradeLog = <<>>
  /\ reserve = 0
  /\ th = [t \in Threads |-> L0]
  /\ closed = {}
  /\ last = Last0

\* -------------------------------------------------------------- helpers
SetLocal(t, l) == th' = [th EXCEPT ![t] = l]
Blocked(l, where) == [l EXCEPT !.pc = "blocked", !.where = where]

\* the locals of a finished send_order call are dropped
ClearSend(l) == [l EXCEPT !.attempt = 0, !.wait_time = 1, !.slept = 0,
                          !.result = "none", !.had_id = FALSE, !.filled = FALSE,
                          !.fatal = FALSE, !.raised = FALSE, !.all_retry = TRUE,
                          !.accepted = 0, !.op = "none", !.order_dir = "none",
                          !.reduce_only = FALSE, !.contracts = 0, !.price = 0,
                          !.entry_price = 0, !.add_times = 0]

\* a try_* operation returns `trade` (its record, or None) to its caller
Return(l0, trade) ==
  LET l == [ClearSend(l0) EXCEPT !.trade = trade]
      top == [l EXCEPT !.idx = @ + 1, !.trade = FALSE, !.ret = "none",
                       !.dir = "none", !.conf = 0, !.pos = NoPos]
  IN CASE l0.ret = "exec"       -> [top EXCEPT !.pc = "exec"]
       [] l0.ret = "tpsl"       -> [top EXCEPT !.pc = "tpsl"]
       [] l0.ret = "build"      -> [l EXCEPT !.pc = "build_wait", !.ret = "exec"]
       [] l0.ret = "hrp_close"  -> [l EXCEPT !.pc = "hrp_close_after", !.ret = "none"]
       [] l0.ret = "hrp_reduce" -> [l EXCEPT !.pc = "hrp_reduce_after", !.ret = "none"]

\* the call send_order(symbol, direction, contracts, config, reduce_only)
CallSend(l, op, params, contracts) ==
  [l EXCEPT !.pc = "send", !.op = op, !.order_dir = params.dir,
            !.reduce_only = params.reduce_only, !.contracts = contracts,
            !.attempt = 0, !.wait_time = 1, !.result = "none"]

\* record_trade_log: one INSERT under _lock
record_trade_log(st, t, log, symbol, operation) ==
  IF ~CanAcquire(st.lock, t) THEN [log |-> log, blocked |-> TRUE]
  ELSE [log |-> Append(log, [symbol |-> symbol, operation |-> operation]),
        blocked |-> FALSE]


\* what a cycle leaves behind for the next one to be compared with
EndRun(l) == [handler |-> l.handler, entries |-> l.entries, latest |-> l.latest,
              market |-> l.market, applied |-> (l.result = "ok")]
Repeats(handler, entries, latest, market) ==
  /\ last.handler = handler /\ last.entries = entries
  /\ last.latest = latest /\ last.market = market

\* ------------------------------------------------------- run_order_executor
\* reads latest_selection.json once and walks the entries
StartExecutor(t) ==
  /\ th[t].pc = "idle"
  /\ \E entries \in SignalLists, market \in Markets :
       SetLocal(t, [L0 EXCEPT !.pc = "exec", !.handler = "executor",
                              !.entries = entries, !.market = market, !.idx = 1,
                              !.repeat = Repeats("executor", entries, NoLatest, market),
                              !.prior = Repeats("executor", entries, NoLatest, market)
                                           /\ last.applied])
  /\ last' = Last0
  /\ UNCHANGED <<store, tradeLog, reserve, closed>>

ExecStep(t) ==
  /\ th[t].pc = "exec"
  /\ LET l == th[t]
     IN IF l.idx > Len(l.entries)
        THEN /\ SetLocal(t, L0)
             /\ last' = EndRun(l)
        ELSE LET e == l.entries[l.idx]
                 l1 == [l EXCEPT !.sym = e.symbol, !.dir = e.direction,
                                 !.conf = e.confidence, !.ret = "exec"]
             IN /\ SetLocal(t, [l1 EXCEPT !.pc =
                       CASE e.operation = "open" -> "build_begin"
                         [] e.operation = "add" -> "add_begin"
                         [] e.operation = "reduce" -> "reduce_begin"
                         [] e.operation = "close" -> "close_begin"])
                /\ UNCHANGED last
  /\ UNCHANGED <<store, tradeLog, reserve, closed>>

\* ------------------------------------------------------- try_close_position
CloseBegin(t) ==
  /\ th[t].pc = "close_begin"
  /\ LET l == th[t]
         r == load_position_state(store, t, FALSE)     \* get_position_state
         current == r.val[l.sym]
     IN IF r.blocked
        THEN /\ SetLocal(t, Blocked(l, "read")) /\ UNCHANGED store
        ELSE /\ store' = r.st
             /\ IF current = NoPos
                THEN SetLocal(t, Return(l, FALSE))
                ELSE SetLocal(t, CallSend(
                       [l EXCEPT !.pos = current, !.price = l.market[l.sym],
                                 !.entry_price = current.price],
                       "close", get_order_params(current.direction, "close"),
                       current.contracts))
  /\ UNCHANGED <<tradeLog, reserve, closed, last>>


\* --------------------------------------------------------------- send_order
\* what the claims call a retryable failure of one attempt: place_order
\* returned something that is no dict, or a dict without an order id whose
\* code and message are not among the non-retryable ones
RetryableFailure(outcome, resp) ==
  /\ outcome = "return"
  /\ \/ resp.code = "nondict"
     \/ ~HasOrdId(resp) /\ ~NonRetryable(resp)

\* one iteration of `for attempt in range(1, max_retry + 1)`: place_order,
\* the status poll when the response carries an order id, and the return or
\* the sleep that follows
SendAttempt(t) ==
  /\ th[t].pc = "sending"
  /\ \E body \in Bodies, polled \in Statuses :
       LET l == th[t]
           outcome == place_order(body)
           id == outcome = "return" /\ body.code # "nondict" /\ HasOrdId(body)
           status == IF id THEN polled ELSE "none"
           r == send_order_attempt(outcome, body, status)
           n == l.attempt + 1
           result == IF r = "retry"
                     THEN (IF AttemptsLeft(n) THEN "none" ELSE "fail")
                     ELSE r
       IN SetLocal(t, [l EXCEPT
            !.attempt = n,
            !.had_id = id,
            !.filled = id /\ StatusFilled(status),
            !.fatal = outcome = "return" /\ body.code # "nondict" /\ NonRetryable(body),
            !.raised = outcome = "raise",
            !.all_retry = @ /\ RetryableFailure(outcome, body),
            !.accepted = @ + (IF id THEN 1 ELSE 0),
            !.slept = IF r = "retry" THEN l.wait_time ELSE 0,
            !.wait_time = IF r = "retry" THEN NextWait(@) ELSE @,
            !.result = result,
            !.pc = IF result = "none" THEN "sending" ELSE "sent"])
  /\ UNCHANGED <<store, tradeLog, reserve, closed, last>>

\* a call send_order(symbol, direction, contracts, config, reduce_only) with
\* arbitrary arguments, and its return
SendCall(t) ==
  /\ th[t].pc = "idle"
  /\ \E op \in Ops, position_direction \in Dirs, contracts \in 1..MaxContracts :
       SetLocal(t, [CallSend(L0, op, get_order_params(position_direction, op), contracts)
                      EXCEPT !.pc = "sending"])
  /\ UNCHANGED <<store, tradeLog, reserve, closed, last>>

SendReturn(t) ==
  /\ th[t].pc = "sent"
  /\ SetLocal(t, L0)
  /\ UNCHANGED <<store, tradeLog, reserve, closed, last>>

\* the whole retry loop, for the replies the exchange gives to the
\* successive attempts: "ok" or "fail"
RECURSIVE send_order(_, _)
send_order(replies, attempt) ==
  IF attempt > Len(replies) THEN "fail"
  ELSE LET body == replies[attempt].body
           outcome == place_order(body)
           id == outcome = "return" /\ body.code # "nondict" /\ HasOrdId(body)
           status == IF id THEN replies[attempt].status ELSE "none"
           r == send_order_attempt(outcome, body, status)
       IN IF r # "retry" THEN r
          ELSE IF AttemptsLeft(attempt) THEN send_order(replies, attempt + 1)
          ELSE "fail"

\* replies of the exchange to one attempt: rejected, filled, accepted but
\* still live at the poll, insufficient margin, and a body that is no object
Replies ==
  { [body |-> [code |-> "1", data |-> "noid"], status |-> "none"],
    [body |-> [code |-> "0", data |-> "id"], status |-> "filled"],
    [body |-> [code |-> "0", data |-> "id"], status |-> "live"],
    [body |-> [code |-> "1", data |-> "noid_margin"], status |-> "none"],
    [body |-> [code |-> "nondict", data |-> "empty"], status |-> "none"] }

\* `result and isinstance(result, dict)`
AnyResult(result) == TRUE
OrderConfirmed(result) == result = "ok"

\* send_order as one step of an operation; a filled close, or a filled
\* reduce of the whole size, closes the position on the exchange
SendOrder(t) ==
  /\ th[t].pc = "send"
  /\ \E replies \in [1..MAX_RETRY_ON_FAILURE -> Replies] :
       LET l == th[t]
           result == send_order(replies, 1)
       IN /\ SetLocal(t, [l EXCEPT !.pc = "send_done", !.result = result,
                                    !.placed = TRUE])
          /\ closed' = IF result # "ok" THEN closed
                       ELSE IF l.op = "close"
                               \/ (l.op = "reduce" /\ l.pos.contracts - l.contracts <= 0)
                            THEN closed \cup {l.sym}
                       ELSE IF l.op = "open" THEN closed \ {l.sym}
                       ELSE closed
  /\ UNCHANGED <<store, tradeLog, reserve, last>>

\* wait_for_position_close: polls get_position_state until the position is
\* gone or has another direction; a wait that runs out has lasted longer
\* than the read cache lives, so the table has been read during it
wait_for_position_close(st, t, symbol, position_direction) ==
  LET r == load_position_state(st, t, FALSE)
      pos == r.val[symbol]
  IN IF r.blocked \/ pos = NoPos \/ pos.direction # position_direction
        \/ st.cacheValid # "fresh"
     THEN [st |-> r.st, blocked |-> r.blocked]
     ELSE LET r2 == load_position_state(r.st, t, TRUE)
          IN [st |-> r2.st, blocked |-> r2.blocked]

\* the tail of try_close_position and try_reduce_position after the store
\* update: the trade log row and, for a gain, the profit reserve.  A price
\* of None makes the pnl expression raise, and so does the call
\* funding_manager.process_profit_transfer(total_reserved) of a function
\* that takes no argument; both end in `except` and return None.
book_trade(st, t, log, res, symbol, operation, pnl, has_price) ==
  IF ~has_price THEN [log |-> log, reserve |-> res, trade |-> FALSE, transfer |-> "none"]
  ELSE LET r == record_trade_log(st, t, log, symbol, operation)
           res1 == IF pnl > 0 THEN res + pnl ELSE res
           called == pnl > 0 /\ res1 >= MIN_PROFIT_TO_RESERVE
       IN [log |-> r.log, reserve |-> res1, trade |-> ~called,
           transfer |-> IF called THEN "raised" ELSE "none"]

CloseAfter(t) ==
  /\ th[t].pc = "send_done" /\ th[t].op = "close"
  /\ LET l == th[t]
     IN IF ~OrderConfirmed(l.result)
        THEN /\ SetLocal(t, Return(l, FALSE))
             /\ UNCHANGED <<store, tradeLog, reserve>>
        ELSE LET w == wait_for_position_close(store, t, l.sym, l.order_dir)
                 r == remove_position(w.st, t, l.sym)
                 b == book_trade(r.st, t, tradeLog, reserve, l.sym, "close",
                                 Pnl(l.pos.direction, l.price, l.entry_price, l.contracts),
                                 l.price # 0)
             IN IF w.blocked
                THEN /\ SetLocal(t, Blocked(l, "read"))
                     /\ UNCHANGED <<store, tradeLog, reserve>>
                ELSE IF r.blocked
                THEN /\ SetLocal(t, Blocked(l, r.where))
                     /\ store' = r.st
                     /\ UNCHANGED <<tradeLog, reserve>>
                ELSE /\ SetLocal(t, Return(l, b.trade))
                     /\ store' = r.st
                     /\ tradeLog' = b.log
                     /\ reserve' = b.reserve
  /\ UNCHANGED <<closed, last>>

\* try_reduce_position: a short position is not reduced but closed
NeverForcesClose(position_direction) == FALSE
ShortForcesClose(position_direction) == position_direction = "sell"

\* ------------------------------------------------------ try_reduce_position
ReduceBegin(t) ==
  /\ th[t].pc = "reduce_begin"
  /\ LET l == th[t]
         r == load_position_state(store, t, FALSE)     \* get_position_state
         current == r.val[l.sym]
     IN IF r.blocked
        THEN /\ SetLocal(t, Blocked(l, "read")) /\ UNCHANGED store
        ELSE /\ store' = r.st
             /\ IF current = NoPos
                THEN SetLocal(t, Return(l, FALSE))
                ELSE IF ShortForcesClose(current.direction)
                THEN SetLocal(t, [l EXCEPT !.pc = "close_begin"])
                ELSE SetLocal(t, CallSend(
                       [l EXCEPT !.pos = current, !.price = l.market[l.sym],
                                 !.entry_price = current.price],
                       "reduce", get_order_params(current.direction, "reduce"),
                       Max(1, current.contracts \div 2)))
  /\ UNCHANGED <<tradeLog, reserve, closed, last>>

ReduceAfter(t) ==
  /\ th[t].pc = "send_done" /\ th[t].op = "reduce"
  /\ LET l == th[t]
     IN IF ~OrderConfirmed(l.result)
        THEN /\ SetLocal(t, Return(l, FALSE))
             /\ UNCHANGED <<store, tradeLog, reserve>>
        ELSE LET r == update_position_after_reduce(store, t, l.sym, l.contracts, Absent)
                 b == book_trade(r.st, t, tradeLog, reserve, l.sym, "reduce",
                                 Pnl(l.pos.direction, l.price, l.entry_price, l.contracts),
                                 l.price # 0)
             IN IF r.blocked
                THEN /\ SetLocal(t, Blocked(l, r.where))
                     /\ store' = r.st
                     /\ UNCHANGED <<tradeLog, reserve>>
                ELSE /\ SetLocal(t, Return(l, b.trade))
                     /\ store' = r.st
                     /\ tradeLog' = b.log
                     /\ reserve' = b.reserve
  /\ UNCHANGED <<closed, last>>


\* ------------------------------------------------------- try_build_position
\* the snapshot of the store and, when the symbol is held in the opposite
\* direction, the close that comes first
BuildBegin(t) ==
  /\ th[t].pc = "build_begin"
  /\ LET l == th[t]
         r == load_position_state(store, t, FALSE)
         current_pos == r.val[l.sym]
         l1 == [l EXCEPT !.snapshot = r.val]
     IN IF r.blocked
        THEN /\ SetLocal(t, Blocked(l, "read")) /\ UNCHANGED store
        ELSE /\ store' = r.st
             /\ IF current_pos # NoPos /\ current_pos.direction # l.dir
                   /\ current_pos.contracts > 0
                THEN SetLocal(t, [l1 EXCEPT !.pc = "close_begin", !.ret = "build"])
                ELSE SetLocal(t, [l1 EXCEPT !.pc = "build_check"])
  /\ UNCHANGED <<tradeLog, reserve, closed, last>>

\* wait_for_position_close(symbol, <the direction that was held>) after the
\* close returned
BuildWait(t) ==
  /\ th[t].pc = "build_wait"
  /\ LET l == th[t]
         w == wait_for_position_close(store, t, l.sym,
                                      IF l.dir = "buy" THEN "sell" ELSE "buy")
     IN IF w.blocked
        THEN /\ SetLocal(t, Blocked(l, "read")) /\ UNCHANGED store
        ELSE /\ store' = w.st
             /\ SetLocal(t, [l EXCEPT !.pc = "build_check", !.trade = FALSE])
  /\ UNCHANGED <<tradeLog, reserve, closed, last>>

\* the risk check on the snapshot, the size estimate (contracts = 0 stands
\* for an estimate that raised or an exposure above the limit) and the order
BuildCheck(t) ==
  /\ th[t].pc = "build_check"
  /\ \E contracts \in 0..MaxContracts :
       LET l == th[t]
       IN IF ~check_position_conflict_and_limit(l.sym, l.dir, l.snapshot, MAX_HOLDING_SYMBOLS)
             \/ l.market[l.sym] = 0 \/ contracts = 0
          THEN SetLocal(t, Return([l EXCEPT !.snapshot = EmptyMap], FALSE))
          ELSE SetLocal(t, CallSend([l EXCEPT !.price = l.market[l.sym], !.snapshot = EmptyMap],
                                    "open", get_order_params(l.dir, "open"), contracts))
  /\ UNCHANGED <<store, tradeLog, reserve, closed, last>>

BuildAfter(t) ==
  /\ th[t].pc = "send_done" /\ th[t].op = "open"
  /\ LET l == th[t]
     IN IF ~OrderConfirmed(l.result)
        THEN /\ SetLocal(t, Return(l, FALSE))
             /\ UNCHANGED <<store, tradeLog>>
        ELSE LET r == update_position_state(store, t, l.sym, l.dir, l.contracts, l.price,
                        l.conf, [add_times |-> 0, reduce_times |-> 0], FALSE)
                 g == record_trade_log(r.st, t, tradeLog, l.sym, "open")
             IN IF r.blocked
                THEN /\ SetLocal(t, Blocked(l, r.where))
                     /\ store' = r.st
                     /\ UNCHANGED tradeLog
                ELSE /\ SetLocal(t, Return(l, TRUE))
                     /\ store' = r.st
                     /\ tradeLog' = g.log
  /\ UNCHANGED <<reserve, closed, last>>

\* --------------------------------------------------------- try_add_position
\* The record and its add_times are read here, before the order is sent.
AddAtLimit(add_times) == add_times > MAX_ADD_TIMES
AddNeverLimited(add_times) == FALSE
AddLimitReached(add_times) == add_times >= MAX_ADD_TIMES

AddBegin(t) ==
  /\ th[t].pc = "add_begin"
  /\ \E contracts \in 0..MaxContracts :
       LET l == th[t]
           r == load_position_state(store, t, FALSE)
           r2 == load_position_state(r.st, t, FALSE)     \* get_position_state
           current == r2.val[l.sym]
       IN IF r.blocked \/ r2.blocked
          THEN /\ SetLocal(t, Blocked(l, "read")) /\ UNCHANGED store
          ELSE /\ store' = r2.st
               /\ IF current = NoPos
                     \/ ~check_position_conflict_and_limit(l.sym, l.dir, r.val, MAX_HOLDING_SYMBOLS)
                  THEN SetLocal(t, Return(l, FALSE))
                  ELSE IF AddLimitReached(current.add_times)
                  THEN SetLocal(t, [l EXCEPT !.pc = "close_begin"])
                  ELSE IF l.market[l.sym] = 0 \/ contracts = 0
                  THEN SetLocal(t, Return(l, FALSE))
                  ELSE SetLocal(t, CallSend(
                         [l EXCEPT !.price = l.market[l.sym], !.add_times = current.add_times],
                         "add", get_order_params(l.dir, "add"), contracts))
  /\ UNCHANGED <<tradeLog, reserve, closed, last>>

AddAfter(t) ==
  /\ th[t].pc = "send_done" /\ th[t].op = "add"
  /\ LET l == th[t]
     IN IF ~OrderConfirmed(l.result)
        THEN /\ SetLocal(t, Return(l, FALSE))
             /\ UNCHANGED <<store, tradeLog>>
        ELSE LET r == update_position_state(store, t, l.sym, l.dir, l.contracts, l.price,
                        l.conf, [add_times |-> l.add_times + 1, reduce_times |-> Absent], TRUE)
                 g == record_trade_log(r.st, t, tradeLog, l.sym, "add")
             IN IF r.blocked
                THEN /\ SetLocal(t, Blocked(l, r.where))
                     /\ store' = r.st
                     /\ UNCHANGED tradeLog
                ELSE /\ SetLocal(t, Return(l, TRUE))
                     /\ store' = r.st
                     /\ tradeLog' = g.log
  /\ UNCHANGED <<reserve, closed, last>>


\* ---------------------------------------------------- run_position_monitor
\* check_take_profit_stop_loss: pnl >= TAKE_PROFIT_VALUE or
\* pnl / (entry_price * contracts) <= STOP_LOSS_RATIO
ExitTriggered(pos, current_price) ==
  LET pnl == Pnl(pos.direction, current_price, pos.price, pos.contracts)
  IN \/ pnl >= TAKE_PROFIT_VALUE
     \/ pnl * 100 <= STOP_LOSS_PCT * pos.price * pos.contracts

StartMonitor(t) ==
  /\ th[t].pc = "idle"
  /\ \E list \in SignalLists, market \in Markets :
       LET r == load_position_state(store, t, FALSE)
           latest == load_latest_selection(list)
           l == [L0 EXCEPT !.handler = "monitor", !.latest = latest, !.market = market,
                           !.repeat = Repeats("monitor", <<>>, latest, market),
                           !.prior = Repeats("monitor", <<>>, latest, market)
                                        /\ last.applied]
       IN IF r.blocked
          THEN /\ SetLocal(t, Blocked(l, "read")) /\ UNCHANGED store
          ELSE /\ store' = r.st
               /\ IF Held(r.val) = {}
                  THEN SetLocal(t, [l EXCEPT !.pc = "sync_begin"])
                  ELSE SetLocal(t, [l EXCEPT !.pc = "tpsl", !.snapshot = r.val, !.idx = 1])
  /\ last' = Last0
  /\ UNCHANGED <<tradeLog, reserve, closed>>

TpslStep(t) ==
  /\ th[t].pc = "tpsl"
  /\ LET l == th[t]
     IN IF l.idx > Len(SymOrder)
        THEN SetLocal(t, [l EXCEPT !.pc = "sync_begin", !.snapshot = EmptyMap, !.idx = 0])
        ELSE LET symbol == SymOrder[l.idx]
                 pos == l.snapshot[symbol]
             IN IF pos = NoPos \/ l.market[symbol] = 0 \/ ~ExitTriggered(pos, l.market[symbol])
                THEN SetLocal(t, [l EXCEPT !.idx = @ + 1])
                ELSE SetLocal(t, [l EXCEPT !.pc = "close_begin", !.sym = symbol,
                                           !.ret = "tpsl"])
  /\ UNCHANGED <<store, tradeLog, reserve, closed, last>>

\* the second half of run_position_monitor: the positions, the signal list
\* (load_latest_selection_cached: the file, or what it held up to five
\* seconds ago), then handle_removed_position for each position
SyncBegin(t) ==
  /\ th[t].pc = "sync_begin"
  /\ LET l == th[t]
         r == load_position_state(store, t, FALSE)
     IN IF r.blocked
        THEN /\ SetLocal(t, Blocked(l, "read")) /\ UNCHANGED <<store, last>>
        ELSE /\ store' = r.st
             /\ IF Held(r.val) = {}
                THEN /\ SetLocal(t, L0) /\ last' = EndRun(l)
                ELSE /\ SetLocal(t, [l EXCEPT !.pc = "hrp", !.snapshot = r.val, !.idx = 1])
                     /\ UNCHANGED last
  /\ UNCHANGED <<tradeLog, reserve, closed>>

\* handle_removed_position up to its call of try_close_position or
\* try_reduce_position: "close", "reduce" or "none"
ReduceAllowed(reduce_times) == reduce_times < MAX_REDUCE_TIMES
reduce_while_allowed(pos) ==
  IF ReduceAllowed(pos.reduce_times) THEN "reduce" ELSE "close"
reduce_or_close(pos) ==
  IF ReduceAllowed(pos.reduce_times)
  THEN (IF pos.direction = "sell" THEN "close" ELSE "reduce")
  ELSE "close"
handle_removed_position(pos, latest_conf, current_price) ==
  IF current_price = 0 THEN "none"
  ELSE IF latest_conf = 0
       THEN (IF Pnl(pos.direction, current_price, pos.price, 1) > 0
                \/ ~REQUIRE_PROFIT_TO_CLOSE
             THEN "close"
             ELSE reduce_or_close(pos))
       ELSE (IF latest_conf < pos.confidence THEN reduce_or_close(pos) ELSE "none")

HrpStep(t) ==
  /\ th[t].pc = "hrp"
  /\ LET l == th[t]
     IN IF l.idx > Len(SymOrder)
        THEN /\ SetLocal(t, L0) /\ last' = EndRun(l)
        ELSE LET symbol == SymOrder[l.idx]
                 pos == l.snapshot[symbol]
                 d == IF pos = NoPos THEN "none"
                      ELSE handle_removed_position(pos, l.latest[symbol], l.market[symbol])
                 l1 == [l EXCEPT !.sym = symbol, !.pos = pos]
             IN /\ UNCHANGED last
                /\ SetLocal(t, CASE d = "none" -> [l EXCEPT !.idx = @ + 1]
                                 [] d = "close" -> [l1 EXCEPT !.pc = "close_begin",
                                                              !.ret = "hrp_close"]
                                 [] d = "reduce" -> [l1 EXCEPT !.pc = "reduce_begin",
                                                               !.ret = "hrp_reduce"])
  /\ UNCHANGED <<store, tradeLog, reserve, closed>>

\* after a close that returned a trade, handle_removed_position removes the
\* position and writes a trade log row itself
HrpCloseAfter(t) ==
  /\ th[t].pc = "hrp_close_after"
  /\ LET l == th[t]
         next == [l EXCEPT !.pc = "hrp", !.idx = @ + 1, !.trade = FALSE, !.pos = NoPos]
         r == remove_position(store, t, l.sym)
         g == record_trade_log(r.st, t, tradeLog, l.sym, "close")
     IN IF ~l.trade
        THEN /\ SetLocal(t, next) /\ UNCHANGED <<store, tradeLog>>
        ELSE IF r.blocked
        THEN /\ SetLocal(t, Blocked(l, r.where)) /\ store' = r.st /\ UNCHANGED tradeLog
        ELSE /\ SetLocal(t, next) /\ store' = r.st /\ tradeLog' = g.log
  /\ UNCHANGED <<reserve, closed, last>>

\* after a reduce that returned a trade, handle_removed_position subtracts
\* reduce_qty and writes a trade log row itself
HrpReduceAfter(t) ==
  /\ th[t].pc = "hrp_reduce_after"
  /\ LET l == th[t]
         next == [l EXCEPT !.pc = "hrp", !.idx = @ + 1, !.trade = FALSE, !.pos = NoPos]
         r == update_position_after_reduce(store, t, l.sym,
                                           Max(1, l.pos.contracts \div 2), Absent)
         g == record_trade_log(r.st, t, tradeLog, l.sym, "reduce")
     IN IF ~l.trade
        THEN /\ SetLocal(t, next) /\ UNCHANGED <<store, tradeLog>>
        ELSE IF r.blocked
        THEN /\ SetLocal(t, Blocked(l, r.where)) /\ store' = r.st /\ UNCHANGED tradeLog
        ELSE /\ SetLocal(t, next) /\ store' = r.st /\ tradeLog' = g.log
  /\ UNCHANGED <<reserve, closed, last>>


\* ------------------------------------------------------------ environment
\* time passes between two cycles and in the sleeps of send_order
TimePasses ==
  \/ \E t \in Threads : th[t].pc = "send_done"
  \/ \A t \in Threads : th[t].pc \in {"idle", "blocked"}

\* five seconds pass since the read cache was filled; what an expired cache
\* holds is never read again
ExpireCache ==
  /\ TimePasses
  /\ store.cacheValid = "fresh"
  /\ store' = [store EXCEPT !.cacheValid = "stale", !.cache = EmptyMap]
  /\ UNCHANGED <<tradeLog, reserve, th, closed, last>>

\* the hung process is killed and started again: module state is new, the
\* database file and the exchange are as they were
Restart ==
  /\ th["main"].pc = "blocked"
  /\ store' = [store EXCEPT !.lock = "free", !.cache = EmptyMap, !.cacheValid = "stale"]
  /\ th' = [t \in Threads |-> L0]
  /\ last' = EndRun(th["main"])
  /\ UNCHANGED <<tradeLog, reserve, closed>>

Step(t) ==
  \/ StartExecutor(t) \/ ExecStep(t)
  \/ BuildBegin(t) \/ BuildWait(t) \/ BuildCheck(t) \/ BuildAfter(t)
  \/ AddBegin(t) \/ AddAfter(t)
  \/ ReduceBegin(t) \/ ReduceAfter(t)
  \/ CloseBegin(t) \/ CloseAfter(t)
  \/ SendOrder(t)
  \/ StartMonitor(t) \/ TpslStep(t) \/ SyncBegin(t) \/ HrpStep(t)
  \/ HrpCloseAfter(t) \/ HrpReduceAfter(t)

\* main.py: one thread runs the monitor and the executor in turn
Next == Step("main") \/ ExpireCache \/ Restart

Spec == Init /\ [][Next]_vars


\* ------------------------------------------------- send_order on its own
\* Calls of send_order with arbitrary arguments, attempt by attempt, against
\* every reply the exchange can give.
InitSend ==
  /\ store = [lock |-> "free", cache |-> EmptyMap, cacheValid |-> "stale", db |-> EmptyMap]
  /\ tradeLog = <<>>
  /\ reserve = 0
  /\ th = [t \in Threads |-> L0]
  /\ closed = {}
  /\ last = Last0

NextSend == SendCall("main") \/ SendAttempt("main") \/ SendReturn("main")

SpecSend == InitSend /\ [][NextSend]_vars

\* ------------------------------------------------- two threads, one store
\* Two threads of one process call try_add_position, try_reduce_position
\* and try_close_position: overlapping cycles, or the executor next to the
\* monitor.
ConcThreads == {"exec", "mon"}
ConcOps == {"add", "reduce", "close"}

ConcCall(t) ==
  /\ th[t].pc = "idle"
  /\ \E e \in Entries :
       /\ e.operation \in ConcOps
       /\ e.confidence = 4
       /\ SetLocal(t, [L0 EXCEPT !.pc = CASE e.operation = "add" -> "add_begin"
                                          [] e.operation = "reduce" -> "reduce_begin"
                                          [] e.operation = "close" -> "close_begin",
                                 !.handler = "executor", !.idx = 1, !.ret = "exec",
                                 !.sym = e.symbol, !.dir = e.direction,
                                 !.conf = e.confidence,
                                 !.market = [s \in Symbols |-> EntryPrice]])
  /\ UNCHANGED <<store, tradeLog, reserve, closed, last>>

NextConc ==
  \/ \E t \in ConcThreads :
       \/ ConcCall(t) \/ ExecStep(t)
       \/ AddBegin(t) \/ AddAfter(t)
       \/ ReduceBegin(t) \/ ReduceAfter(t)
       \/ CloseBegin(t) \/ CloseAfter(t)
       \/ SendOrder(t)
  \/ ExpireCache

SpecConc == Init /\ [][NextConc]_vars


\* ------------------------------------------- auto_selector.process_symbol
\* The signal-driven decision on its own: one call per combination of held
\* position, signal and price.  Confidence is in hundredths here (the code
\* rounds it to two decimals), money in tenths of a USDT as elsewhere.
OPEN_THRESHOLD == 300
SelConfs == {OPEN_THRESHOLD - 1, OPEN_THRESHOLD, OPEN_THRESHOLD + 1}
SelPrices == Prices \cup {EntryPrice + 1}
SelPos == [direction : Dirs, contracts : 1..MaxContracts, price : {EntryPrice},
           confidence : SelConfs, add_times : {0, MAX_ADD_TIMES},
           reduce_times : {0, MAX_REDUCE_TIMES}]

\* unrealized_profit and the test pnl_ratio <= stop_loss_ratio
UnrealizedProfit(pos, price) ==
  IF pos.price # 0 /\ pos.contracts > 0
  THEN Pnl(pos.direction, price, pos.price, pos.contracts) ELSE 0
StopLossHit(pos, price) ==
  LET invested == pos.price * pos.contracts
  IN IF pos.price # 0 /\ pos.contracts > 0 /\ invested > 0
     THEN UnrealizedProfit(pos, price) * 100 <= STOP_LOSS_PCT * invested
     ELSE 0 <= STOP_LOSS_PCT

\* "reduce" if reduce_times < max_reduce else "close"
always_reduce(pos) == "reduce"
reduce_else_close(pos) ==
  IF pos.reduce_times < MAX_REDUCE_TIMES THEN "reduce" ELSE "close"

\* the branch `elif holding:` of the chain
\* (HoldingExitOnDrop tests the signal against the stored confidence)
HoldingExitOnDrop(pos, confidence, price) ==
  LET unrealized_profit == UnrealizedProfit(pos, price)
  IN IF unrealized_profit >= TAKE_PROFIT_VALUE THEN "close"
     ELSE IF StopLossHit(pos, price) THEN reduce_else_close(pos)
     ELSE IF confidence < pos.confidence
     THEN (IF unrealized_profit > 0 \/ ~REQUIRE_PROFIT_TO_CLOSE
           THEN "close" ELSE reduce_else_close(pos))
     ELSE "none"
HoldingExit(pos, confidence, price) ==
  LET unrealized_profit == UnrealizedProfit(pos, price)
  IN IF unrealized_profit >= TAKE_PROFIT_VALUE THEN "close"
     ELSE IF StopLossHit(pos, price) THEN reduce_else_close(pos)
     ELSE IF confidence < OPEN_THRESHOLD
     THEN (IF unrealized_profit > 0 \/ ~REQUIRE_PROFIT_TO_CLOSE
           THEN "close" ELSE reduce_else_close(pos))
     ELSE "none"
AddQualifies(pos, direction, confidence) ==
  /\ pos.contracts > 0 /\ pos.direction = direction
  /\ confidence > pos.confidence /\ pos.add_times < MAX_ADD_TIMES

\* the if / elif chain that sets `operation`; "none" stands for None
\* (process_symbol_tp_first tests the take-profit before the add)
process_symbol_tp_first(pos, direction, confidence, price) ==
  IF price <= 0 THEN "none"
  ELSE LET holding == pos.contracts > 0
       IN IF ~holding /\ confidence >= OPEN_THRESHOLD THEN "open"
          ELSE IF holding /\ UnrealizedProfit(pos, price) >= TAKE_PROFIT_VALUE THEN "close"
          ELSE IF AddQualifies(pos, direction, confidence) THEN "add"
          ELSE IF holding THEN HoldingExit(pos, confidence, price)
          ELSE "none"
process_symbol(pos, direction, confidence, price) ==
  IF price <= 0 THEN "none"
  ELSE LET holding == pos.contracts > 0
       IN IF ~holding /\ confidence >= OPEN_THRESHOLD THEN "open"
          ELSE IF AddQualifies(pos, direction, confidence) THEN "add"
          ELSE IF holding THEN HoldingExit(pos, confidence, price)
          ELSE "none"

SelectorCall(t) ==
  /\ th[t].pc = "idle"
  /\ \E pos \in SelPos \cup {NoPos}, direction \in Dirs, confidence \in SelConfs,
        price \in SelPrices :
       SetLocal(t, [L0 EXCEPT !.pc = "selected", !.handler = "selector",
                              !.pos = pos, !.dir = direction, !.conf = confidence,
                              !.price = price,
                              !.op = process_symbol(pos, direction, confidence, price)])
  /\ UNCHANGED <<store, tradeLog, reserve, closed, last>>

SelectorReturn(t) ==
  /\ th[t].pc = "selected"
  /\ SetLocal(t, L0)
  /\ UNCHANGED <<store, tradeLog, reserve, closed, last>>

\* a call handle_removed_position(symbol, pos, latest_selection, config) of
\* the monitor for a held position, up to the operation it starts;
\* confidence 0: latest_selection has no entry for the symbol
SyncCall(t) ==
  /\ th[t].pc = "idle"
  /\ \E pos \in SelPos, direction \in Dirs, confidence \in SelConfs \cup {0},
        price \in SelPrices :
       SetLocal(t, [L0 EXCEPT !.pc = "synced", !.handler = "monitor",
                              !.pos = pos, !.dir = direction, !.conf = confidence,
                              !.price = price,
                              !.op = handle_removed_position(pos, confidence, price)])
  /\ UNCHANGED <<store, tradeLog, reserve, closed, last>>

SyncReturn(t) ==
  /\ th[t].pc = "synced"
  /\ SetLocal(t, L0)
  /\ UNCHANGED <<store, tradeLog, reserve, closed, last>>

\* what check_take_profit_stop_loss does with one position of the table:
\* "close" for try_close_position, "none" for a skipped or untouched one
\* (take_profit_only leaves the return ratio out of the test)
take_profit_only(pos, current_price) ==
  IF pos.direction = "none" \/ pos.price = 0 \/ pos.contracts <= 0 THEN "none"
  ELSE IF current_price = 0 THEN "none"
  ELSE IF Pnl(pos.direction, current_price, pos.price, pos.contracts) >= TAKE_PROFIT_VALUE
  THEN "close" ELSE "none"
check_take_profit_stop_loss(pos, current_price) ==
  IF pos.direction = "none" \/ pos.price = 0 \/ pos.contracts <= 0 THEN "none"
  ELSE IF current_price = 0 THEN "none"
  ELSE IF ExitTriggered(pos, current_price) THEN "close" ELSE "none"

\* one round of the loop of check_take_profit_stop_loss, for one position
CheckCall(t) ==
  /\ th[t].pc = "idle"
  /\ \E pos \in SelPos, price \in SelPrices :
       SetLocal(t, [L0 EXCEPT !.pc = "checked", !.handler = "monitor",
                              !.pos = pos, !.dir = pos.direction,
                              !.conf = pos.confidence, !.price = price,
                              !.op = check_take_profit_stop_loss(pos, price)])
  /\ UNCHANGED <<store, tradeLog, reserve, closed, last>>

CheckReturn(t) ==
  /\ th[t].pc = "checked"
  /\ SetLocal(t, L0)
  /\ UNCHANGED <<store, tradeLog, reserve, closed, last>>

NextSelect ==
  \/ SelectorCall("main") \/ SelectorReturn("main")
  \/ SyncCall("main") \/ SyncReturn("main")
  \/ CheckCall("main") \/ CheckReturn("main")

SpecSelect == InitSend /\ [][NextSelect]_vars


\* ----------------------------------- send_order with a configured max_retry
\* send_order's loop for a MAX_RETRY_ON_FAILURE taken from the configuration:
\* `max_retry = int(config.get("MAX_RETRY_ON_FAILURE", 3))`.
MaxRetry == 5

RetryCall(t) ==
  /\ th[t].pc = "idle"
  /\ \E max_retry \in 1..MaxRetry, op \in Ops, position_direction \in Dirs :
       SetLocal(t, [CallSend(L0, op, get_order_params(position_direction, op), 1)
                      EXCEPT !.pc = "retrying", !.max_retry = max_retry])
  /\ UNCHANGED <<store, tradeLog, reserve, closed, last>>

\* one iteration of `for attempt in range(1, max_retry + 1)`; where: the
\* response was no dict ("nondict"), or it was a dict and the attempt ended
\* in the wait before the next one ("dict")
RetryAttempt(t) ==
  /\ th[t].pc = "retrying"
  /\ \E body \in Bodies, polled \in Statuses :
       LET l == th[t]
           outcome == place_order(body)
           id == outcome = "return" /\ body.code # "nondict" /\ HasOrdId(body)
           status == IF id THEN polled ELSE "none"
           r == send_order_attempt(outcome, body, status)
           n == l.attempt + 1
           result == IF r = "retry"
                     THEN (IF n < l.max_retry THEN "none" ELSE "fail")
                     ELSE r
       IN SetLocal(t, [l EXCEPT
            !.attempt = n,
            !.had_id = id,
            !.raised = outcome = "raise",
            !.all_retry = @ /\ RetryableFailure(outcome, body),
            !.slept = IF r = "retry" THEN l.wait_time ELSE 0,
            !.wait_time = IF r = "retry" THEN NextWait(@) ELSE @,
            !.where = IF body.code = "nondict" THEN "nondict"
                      ELSE IF r = "retry" THEN "dict" ELSE "",
            !.result = result,
            !.pc = IF result = "none" THEN "retrying" ELSE "sent"])
  /\ UNCHANGED <<store, tradeLog, reserve, closed, last>>

NextBackoff == RetryCall("main") \/ RetryAttempt("main") \/ SendReturn("main")

SpecBackoff == InitSend /\ [][NextBackoff]_vars

\* ------------------------------------------- allocate_capital_for_position
\* The size estimate of an open and the exposure check that follows it in
\* try_build_position.  Amounts are in whole USDT; the fractions the code
\* computes in floating point are kept exact as n / d with d > 0.
RECURSIVE GCD(_, _)
GCD(a, b) == IF b = 0 THEN a ELSE GCD(b, a % b)
Q(n, d) == LET g == GCD(IF n < 0 THEN -n ELSE n, d)
           IN [n |-> n \div g, d |-> d \div g]
QMul(a, b) ==
  LET g1 == GCD(IF a.n < 0 THEN -a.n ELSE a.n, b.d)
      g2 == GCD(IF b.n < 0 THEN -b.n ELSE b.n, a.d)
  IN Q((a.n \div g1) * (b.n \div g2), (a.d \div g2) * (b.d \div g1))
QDiv(a, b) == QMul(a, [n |-> b.d, d |-> b.n])          \* b > 0
QAdd(a, b) == Q(a.n * b.d + b.n * a.d, a.d * b.d)
QSub(a, b) == Q(a.n * b.d - b.n * a.d, a.d * b.d)
QLeq(a, b) == a.n * b.d <= b.n * a.d
QMin(a, b) == IF QLeq(a, b) THEN a ELSE b
QMax(a, b) == IF QLeq(a, b) THEN b ELSE a
\* int(x): truncation towards zero
QInt(a) == IF a.n >= 0 THEN a.n \div a.d ELSE -((-a.n) \div a.d)

MAX_CONTRACTS_PER_ORDER == 6000
MAX_LEVERAGE_LIMIT == 10
MIN_SINGLE_POSITION_RATIO == Q(1, 100)
MAX_SINGLE_POSITION_RATIO == Q(15, 100)
CAPITAL_BUFFER_RATIO == Q(10, 100)
STOP_LOSS_RATIO == Q(-5, 100)
ORDER_MARGIN_BUFFER == Q(110, 100)
MAX_SYMBOL_EXPOSURE_RATIO == Q(50, 100)

\* what the exchange and latest_selection.json give to one estimate; price 0
\* stands for a price that is None or not positive
AllocBalances == {0, 100, 1000, 10000}
AllocPrices == {0, 1, 100, 450}
AllocLeverages == {1, 5, 20}
AllocConfs == {0, 3, 85, 100}
AllocCounts == 0..2
\* confidences given to calculate_investment_ratio on its own: below 0, at
\* 0, on both sides of the point where the lower clamp ends (6.67), inside,
\* at 100 and above
RatioConfs == {-50, 0, 6, 7, 50, 99, 100, 150}

unclamped_ratio(confidence) == QMul(Q(confidence, 100), MAX_SINGLE_POSITION_RATIO)
calculate_investment_ratio(confidence) ==
  LET ratio == QMul(Q(confidence, 100), MAX_SINGLE_POSITION_RATIO)
  IN QMax(MIN_SINGLE_POSITION_RATIO, QMin(ratio, MAX_SINGLE_POSITION_RATIO))

\* `(available / 2) * (1 + stop_loss_ratio)` with stop_loss_ratio = abs(...)
no_short_reserve(available) == Q(0, 1)
short_reserved_amount(available) ==
  LET stop_loss_ratio == Q(IF STOP_LOSS_RATIO.n < 0 THEN -STOP_LOSS_RATIO.n
                           ELSE STOP_LOSS_RATIO.n, STOP_LOSS_RATIO.d)
  IN QMul(QMul(available, Q(1, 2)), QAdd(Q(1, 1), stop_loss_ratio))

\* `max(1, min(contracts, max_possible_contracts, MAX_CONTRACTS_PER_ORDER))`
clamp_above_only(contracts, max_possible_contracts) ==
  Min(Min(contracts, max_possible_contracts), MAX_CONTRACTS_PER_ORDER)
clamp_contracts(contracts, max_possible_contracts) ==
  Max(1, Min(Min(contracts, max_possible_contracts), MAX_CONTRACTS_PER_ORDER))

\* lev: the element of get_leverage's pair for `direction`
allocate_capital_for_position(direction, confidence, long_count, short_count, price, lev, balance) ==
  IF price <= 0 THEN [raised |-> TRUE]
  ELSE
    LET leverage == Min(lev, MAX_LEVERAGE_LIMIT)
        available == QMul(Q(balance, 1), QSub(Q(1, 1), CAPITAL_BUFFER_RATIO))
        total_positions == long_count + short_count
        reserved_amount ==
          IF total_positions # 0 /\ direction # "buy"
          THEN short_reserved_amount(available) ELSE Q(0, 1)
        free_amount == QMax(Q(0, 1), QSub(available, reserved_amount))
        allocated_capital ==
          IF total_positions = 0 THEN available
          ELSE IF direction = "buy"
               THEN QMul(available, Q(long_count, total_positions))
               ELSE QMul(free_amount, Q(short_count, total_positions))
        ratio == calculate_investment_ratio(confidence)
        budget == QMul(allocated_capital, ratio)
        margin_per_contract == QMul(Q(price, leverage), ORDER_MARGIN_BUFFER)
        max_possible_contracts == QInt(QDiv(allocated_capital, margin_per_contract))
        contracts == QInt(QDiv(budget, margin_per_contract))
    IN [raised |-> FALSE,
        contracts |-> clamp_contracts(contracts, max_possible_contracts),
        price |-> price, leverage |-> leverage,
        available |-> available, reserved_amount |-> reserved_amount,
        allocated_capital |-> allocated_capital, budget |-> budget,
        margin_per_contract |-> margin_per_contract,
        max_possible_contracts |-> max_possible_contracts]

\* try_build_position from the estimate to the order: "estimate" when the
\* estimate raised, "exposure" when the margin of the order is above the
\* exposure limit, "send" when send_order is called
build_outcome(a, total_balance) ==
  IF a.raised THEN "estimate"
  ELSE LET budget == Q(a.price * a.contracts, a.leverage)
       IN IF total_balance > 0
             /\ ~QLeq(QDiv(budget, Q(total_balance, 1)), MAX_SYMBOL_EXPOSURE_RATIO)
          THEN "exposure" ELSE "send"

AllocCall(t) ==
  /\ th[t].pc = "idle"
  /\ \E direction \in Dirs, confidence \in AllocConfs, long_count \in AllocCounts,
        short_count \in AllocCounts, price \in AllocPrices, lev \in AllocLeverages,
        balance \in AllocBalances :
       LET a == allocate_capital_for_position(direction, confidence, long_count,
                                              short_count, price, lev, balance)
       IN SetLocal(t, [L0 EXCEPT !.pc = "allocated", !.handler = "allocator",
            !.alloc = [outcome |-> build_outcome(a, balance),
                       direction |-> direction, confidence |-> confidence,
                       long_count |-> long_count, short_count |-> short_count,
                       market_price |-> price, lev |-> lev, balance |-> balance,
                       ret |-> a]])
  /\ UNCHANGED <<store, tradeLog, reserve, closed, last>>

AllocReturn(t) ==
  /\ th[t].pc = "allocated"
  /\ SetLocal(t, L0)
  /\ UNCHANGED <<store, tradeLog, reserve, closed, last>>

\* a call calculate_investment_ratio(confidence, config) and its return
RatioCall(t) ==
  /\ th[t].pc = "idle"
  /\ \E confidence \in RatioConfs :
       SetLocal(t, [L0 EXCEPT !.pc = "ratio", !.handler = "allocator",
            !.alloc = [outcome |-> "ratio", confidence |-> confidence,
                       ratio |-> calculate_investment_ratio(confidence)]])
  /\ UNCHANGED <<store, tradeLog, reserve, closed, last>>

RatioReturn(t) ==
  /\ th[t].pc = "ratio"
  /\ SetLocal(t, L0)
  /\ UNCHANGED <<store, tradeLog, reserve, closed, last>>

NextAlloc ==
  \/ AllocCall("main") \/ AllocReturn("main")
  \/ RatioCall("main") \/ RatioReturn("main")

SpecAlloc == InitSend /\ [][NextAlloc]_vars


\* --------------------------------------------------------- profit reserve
\* The tail of try_close_position / try_reduce_position that credits the
\* reserve row of state_manager.db, and funding_manager's own reserve (the
\* file profit_reserve.json) with the functions that work on it.  Amounts
\* in twentieths of a USDT.
MaxTrades == 3
LedgerPnls == {-40, 0, 40, 60}
FileReserves == {0, 99, 100, 101}

\* funding_manager.add_profit on a file that holds `file`
fund_add_profit(file, amount) == IF amount <= 0 THEN file ELSE file + amount

\* funding_manager.process_profit_transfer() on a file that holds `file`;
\* ok: what transfer_profit_to_funding returns when it is called
transfer_always_resets(file, ok) ==
  IF file >= MIN_PROFIT_TO_RESERVE
  THEN [file |-> 0, attempted |-> TRUE, ret |-> TRUE]
  ELSE [file |-> file, attempted |-> FALSE, ret |-> FALSE]
process_profit_transfer(file, ok) ==
  IF file >= MIN_PROFIT_TO_RESERVE
  THEN IF ok THEN [file |-> 0, attempted |-> TRUE, ret |-> TRUE]
       ELSE [file |-> file, attempted |-> TRUE, ret |-> FALSE]
  ELSE [file |-> file, attempted |-> FALSE, ret |-> FALSE]

\* the tail after a confirmed close or reduce and its store update
BookCall(t) ==
  /\ th[t].pc = "idle" /\ Len(tradeLog) < MaxTrades
  /\ \E operation \in {"close", "reduce"}, pnl \in LedgerPnls, has_price \in BOOLEAN :
       LET b == book_trade(store, t, tradeLog, reserve, "X", operation, pnl, has_price)
       IN /\ tradeLog' = b.log
          /\ reserve' = b.reserve
          /\ SetLocal(t, [L0 EXCEPT !.pc = "booked", !.handler = "ledger",
               !.ledger = [kind |-> "tail", operation |-> operation, pnl |-> pnl,
                           has_price |-> has_price, before |-> reserve,
                           after |-> b.reserve, transfer |-> b.transfer,
                           trade |-> b.trade]])
  /\ UNCHANGED <<store, closed, last>>

TransferCall(t) ==
  /\ th[t].pc = "idle"
  /\ \E file \in FileReserves, ok \in BOOLEAN :
       LET r == process_profit_transfer(file, ok)
       IN SetLocal(t, [L0 EXCEPT !.pc = "booked", !.handler = "ledger",
            !.ledger = [kind |-> "transfer", before |-> file, ok |-> ok,
                        after |-> r.file, attempted |-> r.attempted, ret |-> r.ret]])
  /\ UNCHANGED <<store, tradeLog, reserve, closed, last>>

FundAddCall(t) ==
  /\ th[t].pc = "idle"
  /\ \E file \in FileReserves, amount \in LedgerPnls :
       SetLocal(t, [L0 EXCEPT !.pc = "booked", !.handler = "ledger",
            !.ledger = [kind |-> "add", before |-> file, amount |-> amount,
                        after |-> fund_add_profit(file, amount)]])
  /\ UNCHANGED <<store, tradeLog, reserve, closed, last>>

LedgerReturn(t) ==
  /\ th[t].pc = "booked"
  /\ SetLocal(t, L0)
  /\ UNCHANGED <<store, tradeLog, reserve, closed, last>>

NextLedger ==
  \/ BookCall("main") \/ TransferCall("main")
  \/ FundAddCall("main") \/ LedgerReturn("main")

SpecLedger == InitSend /\ [][NextLedger]_vars


\* ---------------------------------------------------------------- main_loop
max_errors == 5

\* one pass of `while True`: what the outer try does with error_count.
\* interrupt: KeyboardInterrupt reached the outer try; body_raises: a
\* statement outside the three inner try blocks raised an Exception;
\* inner_raises: run_position_monitor, run_selector or run_order_executor
\* raised one, which its own try caught.
inner_errors_count(error_count, interrupt, body_raises, inner_raises) ==
  IF interrupt THEN [error_count |-> error_count, halt |-> "interrupt"]
  ELSE IF body_raises \/ inner_raises
  THEN [error_count |-> error_count + 1,
        halt |-> IF error_count + 1 >= max_errors THEN "errors" ELSE "no"]
  ELSE [error_count |-> 0, halt |-> "no"]
main_iteration(error_count, interrupt, body_raises, inner_raises) ==
  IF interrupt THEN [error_count |-> error_count, halt |-> "interrupt"]
  ELSE IF body_raises
  THEN [error_count |-> error_count + 1,
        halt |-> IF error_count + 1 >= max_errors THEN "errors" ELSE "no"]
  ELSE [error_count |-> 0, halt |-> "no"]

MainStart(t) ==
  /\ th[t].pc = "idle"
  /\ SetLocal(t, [L0 EXCEPT !.pc = "loop", !.handler = "main_loop",
       !.loop = [halt |-> "no", error_count |-> 0, streak |-> 0,
                 monitor_due |-> FALSE, selector_due |-> FALSE,
                 monitor_raises |-> FALSE, selector_raises |-> FALSE,
                 executor_raises |-> FALSE, body_raises |-> FALSE]])
  /\ UNCHANGED <<store, tradeLog, reserve, closed, last>>

\* streak: the number of passes in a row, up to this one, that raised out
\* of the body
MainIteration(t) ==
  /\ th[t].pc = "loop"
  /\ \E monitor_due \in BOOLEAN, selector_due \in BOOLEAN, monitor_raises \in BOOLEAN,
        selector_raises \in BOOLEAN, executor_raises \in BOOLEAN,
        body_raises \in BOOLEAN, interrupt \in BOOLEAN :
       /\ monitor_raises => monitor_due
       /\ (selector_raises \/ executor_raises) => selector_due
       /\ LET l == th[t]
              r == main_iteration(l.loop.error_count, interrupt, body_raises,
                                  monitor_raises \/ selector_raises \/ executor_raises)
          IN SetLocal(t, [l EXCEPT
               !.pc = IF r.halt = "no" THEN "loop" ELSE "halted",
               !.loop = [halt |-> r.halt, error_count |-> r.error_count,
                         streak |-> IF interrupt THEN l.loop.streak
                                    ELSE IF body_raises THEN l.loop.streak + 1 ELSE 0,
                         monitor_due |-> monitor_due, selector_due |-> selector_due,
                         monitor_raises |-> monitor_raises,
                         selector_raises |-> selector_raises,
                         executor_raises |-> executor_raises,
                         body_raises |-> body_raises]])
  /\ UNCHANGED <<store, tradeLog, reserve, closed, last>>

MainReturn(t) ==
  /\ th[t].pc = "halted"
  /\ SetLocal(t, L0)
  /\ UNCHANGED <<store, tradeLog, reserve, closed, last>>

NextMain == MainStart("main") \/ MainIteration("main") \/ MainReturn("main")

SpecMain == InitSend /\ [][NextMain]_vars


\* ================================================================== claims
Quiescent == \A t \in Threads : th[t].pc = "idle"

\* what a read of the store returns for a symbol now, if it returns
ReadsNoPosition(s, force_reload) ==
  LET r == load_position_state(store, "main", force_reload)
  IN ~r.blocked => r.val[s] = NoPos

\* C1: every call of a store mutation returns and releases the lock: no
\* thread is stuck in update_position_state, update_position_after_reduce or
\* remove_position waiting for the lock that it holds itself.
C1_MutatorsReturn ==
  \A t \in Threads : ~(th[t].pc = "blocked" /\ store.lock = t)

\* C2: once a filled order has closed a symbol's position and the operation
\* is over, every read of the store (from the cache, with force_reload, after
\* a restart) returns no position for the symbol until an open fills.
C2_ClosedStaysClosed ==
  Quiescent => \A s \in closed : \A f \in BOOLEAN : ReadsNoPosition(s, f)

\* C3: with two threads operating on one symbol no update is lost: when both
\* threads have come to rest, no filled order is left whose update of the
\* stored size or of add_times has not been written.
C3_NoLostUpdate ==
  (\A t \in ConcThreads : th[t].pc \in {"idle", "blocked"})
    => \A t \in ConcThreads : ~(th[t].pc = "blocked" /\ th[t].result = "ok")

\* C4: one call of send_order calls place_order at most MAX_RETRY_ON_FAILURE
\* times, and when every attempt was a retryable failure it has made exactly
\* MAX_RETRY_ON_FAILURE attempts when it returns, and it returns failure.
C4_RetryBound ==
  \A t \in Threads :
    /\ th[t].attempt <= MAX_RETRY_ON_FAILURE
    /\ (th[t].pc = "sent" /\ th[t].all_retry)
         => (th[t].attempt = MAX_RETRY_ON_FAILURE /\ th[t].result = "fail")
C4_Witness ==
  \E t \in Threads : th[t].pc = "sent" /\ th[t].all_retry /\ th[t].result = "fail"

\* C5 as stated: send_order returns an order only if that attempt's response
\* carried an order id and its poll returned filled or partial-filled; an
\* attempt whose poll returned anything else is followed by a retry while
\* attempts remain.
C5_Original ==
  \A t \in Threads :
    /\ th[t].result = "ok" => (th[t].had_id /\ th[t].filled)
    /\ (th[t].had_id /\ ~th[t].filled /\ th[t].attempt < MAX_RETRY_ON_FAILURE)
         => th[t].pc = "sending"
\* C5 amended: as C5, except that an attempt whose response also carried
\* code 50113 or an insufficient-margin message is not retried: send_order
\* returns failure at once.
C5_PollDecides ==
  \A t \in Threads :
    /\ th[t].result = "ok" => (th[t].had_id /\ th[t].filled)
    /\ (th[t].had_id /\ ~th[t].filled /\ th[t].attempt < MAX_RETRY_ON_FAILURE
          /\ ~th[t].fatal) => th[t].pc = "sending"
    /\ (th[t].had_id /\ ~th[t].filled /\ th[t].fatal)
         => (th[t].pc = "sent" /\ th[t].result = "fail")
C5_Witness ==
  \E t \in Threads : th[t].pc = "sending" /\ th[t].had_id /\ ~th[t].filled

\* C6 as stated: a response that carries code 50113 or an insufficient-margin
\* message makes send_order return failure with no further place_order call.
C6_Original ==
  \A t \in Threads : th[t].fatal => (th[t].pc = "sent" /\ th[t].result = "fail")
\* C6 amended: after such a response send_order makes no further place_order
\* call; it returns failure unless the same response carried an order id
\* whose poll returned filled or partial-filled, which it returns as a success.
C6_NoRetryAfterFatal ==
  \A t \in Threads :
    th[t].fatal => /\ th[t].pc = "sent"
                   /\ th[t].result = (IF th[t].had_id /\ th[t].filled THEN "ok" ELSE "fail")
C6_Witness ==
  \E t \in Threads : /\ th[t].fatal /\ th[t].pc = "sent" /\ th[t].result = "fail"
                     /\ th[t].attempt < MAX_RETRY_ON_FAILURE


\* a step of thread t out of the state in which send_order has returned
AfterSend(t, result) ==
  th[t].pc = "send_done" /\ th[t].result = result /\ th'[t] # th[t]

\* C7: the step an operation takes after send_order returned failure leaves
\* the store (table, lock and cache), the trade log and the profit reserve as
\* they are and calls no mutation; the lock of the store is taken, and the
\* table, the trade log and the reserve are written, only in the step after a
\* send_order that returned an order.
C7_FailureLeavesStore ==
  [][/\ \A t \in Threads :
          AfterSend(t, "fail") => /\ store' = store
                                  /\ tradeLog' = tradeLog
                                  /\ reserve' = reserve
                                  /\ th'[t].pc # "blocked"
     /\ (\/ (store.lock = "free" /\ store'.lock # "free")
         \/ store'.db # store.db
         \/ tradeLog' # tradeLog
         \/ reserve' # reserve)
          => \E t \in Threads : AfterSend(t, "ok")]_vars
\* an operation has placed its order and has returned to the executor loop:
\* its send_order failed
C7_Witness ==
  \E t \in Threads : th[t].placed /\ th[t].pc = "exec" /\ th[t].idx > 1

\* C8: a run of run_position_monitor that directly follows another one with
\* the same prices and the same signal list, in which an order was filled,
\* calls place_order for no order.
C8_MonitorIdempotent ==
  \A t \in Threads : (th[t].handler = "monitor" /\ th[t].prior) => ~th[t].placed

\* C9: a run of run_order_executor that directly follows another one on the
\* same signal list and the same prices, in which the signal's order was
\* filled, places no additional order.
C9_ExecutorIdempotent ==
  \A t \in Threads : (th[t].handler = "executor" /\ th[t].prior) => ~th[t].placed

WellFormed(pos) ==
  \/ pos = NoPos
  \/ /\ 0 <= pos.add_times /\ pos.add_times <= MAX_ADD_TIMES
     /\ 0 <= pos.reduce_times /\ pos.reduce_times <= MAX_REDUCE_TIMES
     /\ pos.contracts >= 1

\* C10: in every reachable state every stored position, in the table and in
\* the cache that serves the reads, has 0 <= add_times <= MAX_ADD_TIMES,
\* 0 <= reduce_times <= MAX_REDUCE_TIMES and at least one contract.
C10_CountersInRange ==
  \A s \in Symbols : WellFormed(store.db[s]) /\ WellFormed(store.cache[s])
\* an add has raised the cached record's size and add_times
C10_Witness ==
  \E s \in Symbols : /\ store.cacheValid = "fresh"
                     /\ store.db[s] # NoPos
                     /\ store.cache[s] # NoPos
                     /\ store.cache[s].add_times = store.db[s].add_times + 1
                     /\ store.cache[s].contracts > store.db[s].contracts

\* C11: the step try_add_position takes after its add order was confirmed
\* leaves the position_state row of the symbol with the previous size plus the
\* contracts of the order and with the previous add_times plus 1.
C11_AddStored ==
  [][\A t \in Threads :
       (AfterSend(t, "ok") /\ th[t].op = "add")
         => /\ store'.db[th[t].sym].contracts
                 = store.db[th[t].sym].contracts + th[t].contracts
            /\ store'.db[th[t].sym].add_times = store.db[th[t].sym].add_times + 1]_vars

\* the record try_add_position reads for its symbol
Current(t) == load_position_state(store, t, FALSE).val[th[t].sym]
\* try_add_position runs its checks on a position that is at the add limit
AddCallAtLimit(t) ==
  /\ th[t].pc = "add_begin" /\ th'[t] # th[t]
  /\ Current(t) # NoPos /\ Current(t).add_times >= MAX_ADD_TIMES

\* C12 as stated: try_add_position on a position whose add_times has reached
\* MAX_ADD_TIMES places no add order and goes on as try_close_position.
C12_Original ==
  [][\A t \in Threads : AddCallAtLimit(t) => th'[t].pc = "close_begin"]_vars
\* C12 amended: no add order is ever sent for a position whose add_times has
\* reached MAX_ADD_TIMES; try_add_position goes on as try_close_position when
\* the signal's direction is the held direction, and returns without any order
\* when it is the opposite direction.
C12_LimitCloses ==
  [][\A t \in Threads :
       /\ (th'[t].op = "add" /\ th'[t].pc = "send") => th'[t].add_times < MAX_ADD_TIMES
       /\ AddCallAtLimit(t)
            => /\ th'[t].pc # "send"
               /\ IF th[t].dir = Current(t).direction
                  THEN th'[t].pc = "close_begin"
                  ELSE th'[t].pc = "exec" /\ ~th'[t].placed]_vars
\* an add signal has been turned into a close
C12_Witness ==
  \E t \in Threads : /\ th[t].pc = "close_begin" /\ th[t].handler = "executor"
                     /\ th[t].entries[th[t].idx].operation = "add"

\* C13: no reduce order is sent for a short position; the reduce-only order
\* sent for a short position is a close of its whole size; and the size
\* stored for a short position, in the table and in the cache, never goes
\* down while the record stays.
C13_ShortNeverReduced ==
  [][/\ \A t \in Threads :
          th'[t].pc = "send"
            => /\ th'[t].op = "reduce" => th'[t].pos.direction = "buy"
               /\ (th'[t].reduce_only /\ th'[t].pos.direction = "sell")
                    => (th'[t].op = "close" /\ th'[t].contracts = th'[t].pos.contracts)
     /\ \A s \in Symbols :
          /\ (store.db[s].direction = "sell" /\ store'.db[s].direction = "sell")
               => store'.db[s].contracts >= store.db[s].contracts
          /\ (store.cache[s].direction = "sell" /\ store'.cache[s].direction = "sell")
               => store'.cache[s].contracts >= store.cache[s].contracts]_vars

\* the six rules of the decision, in their order, for one call's inputs
RuleHolds(k, pos, direction, confidence, price) ==
  LET holding == pos # NoPos
      pnl == Pnl(pos.direction, price, pos.price, pos.contracts)
  IN CASE k = 1 -> ~holding /\ confidence >= OPEN_THRESHOLD
       [] k = 2 -> /\ holding /\ direction = pos.direction
                   /\ confidence > pos.confidence /\ pos.add_times < MAX_ADD_TIMES
       [] k = 3 -> holding /\ pnl >= TAKE_PROFIT_VALUE
       [] k = 4 -> holding /\ pnl * 100 <= STOP_LOSS_PCT * pos.price * pos.contracts
       [] k = 5 -> holding /\ confidence < OPEN_THRESHOLD
       [] k = 6 -> TRUE
RuleOps(k, pos, price) ==
  LET capped == IF pos.reduce_times < MAX_REDUCE_TIMES THEN {"reduce"} ELSE {"close"}
  IN CASE k = 1 -> {"open"}
       [] k = 2 -> {"add"}
       [] k = 3 -> {"close"}
       [] k = 4 -> capped
       [] k = 5 -> IF Pnl(pos.direction, price, pos.price, pos.contracts) > 0
                      \/ ~REQUIRE_PROFIT_TO_CLOSE
                   THEN {"close"} ELSE capped
       [] k = 6 -> {"none"}
FirstRule(pos, direction, confidence, price) ==
  CHOOSE k \in 1..6 : /\ RuleHolds(k, pos, direction, confidence, price)
                      /\ \A j \in 1..(k - 1) : ~RuleHolds(j, pos, direction, confidence, price)
Selected(t) == th[t].pc = "selected" /\ th[t].price > 0

\* C14: for every held position or none, signal and live price, the operation
\* process_symbol chooses is that of the first rule that matches, in the order
\* open, add, take-profit close, stop-loss reduce-or-close, low-confidence
\* close-or-reduce, no operation; a flat symbol yields open at a confidence of
\* OPEN_THRESHOLD or more and no operation just below it.
C14_FirstMatchingRule ==
  \A t \in Threads :
    Selected(t) =>
      LET l == th[t]
      IN /\ l.op \in RuleOps(FirstRule(l.pos, l.dir, l.conf, l.price), l.pos, l.price)
         /\ (l.pos = NoPos /\ l.conf >= OPEN_THRESHOLD) => l.op = "open"
         /\ (l.pos = NoPos /\ l.conf = OPEN_THRESHOLD - 1) => l.op = "none"
\* a held position for which both the add rule and the take-profit rule match
C14_Witness ==
  \E t \in Threads :
    /\ Selected(t) /\ th[t].op = "add"
    /\ RuleHolds(3, th[t].pos, th[t].dir, th[t].conf, th[t].price)

LongAtStopLossCap(t) ==
  /\ Selected(t) /\ th[t].pos # NoPos /\ th[t].pos.direction = "buy"
  /\ RuleHolds(4, th[t].pos, th[t].dir, th[t].conf, th[t].price)
  /\ th[t].pos.reduce_times = MAX_REDUCE_TIMES

\* C15 as stated: for a held long whose PnL ratio is at or below
\* STOP_LOSS_RATIO and whose reduce_times equals MAX_REDUCE_TIMES the decision
\* is close.
C15_Original ==
  \A t \in Threads : LongAtStopLossCap(t) => th[t].op = "close"
\* C15 amended: for such a position the decision of process_symbol is never
\* reduce; it is close unless the add rule, which comes first, matches, and
\* then it is add; check_take_profit_stop_loss closes such a position.
C15_StopLossCapCloses ==
  \A t \in Threads :
    LongAtStopLossCap(t)
      => /\ th[t].op # "reduce"
         /\ th[t].op = (IF RuleHolds(2, th[t].pos, th[t].dir, th[t].conf, th[t].price)
                        THEN "add" ELSE "close")
         /\ ExitTriggered(th[t].pos, th[t].price)
C15_Witness ==
  \E t \in Threads : LongAtStopLossCap(t) /\ th[t].op = "close"

\* thread t has confirmed the open order of symbol s
Opened(t, s) ==
  /\ AfterSend(t, "ok") /\ th[t].op = "open" /\ th[t].sym = s

\* C16: a record of the table or of the cache keeps its direction as long as
\* it exists; an open or add order is sent only for a symbol that is not held
\* or is held in the order's direction; and a record that appears for a symbol
\* that had none, other than by a read of the table, carries the direction of
\* the open order that was filled for it.
C16_DirectionKept ==
  [][/\ \A s \in Symbols :
          /\ (store.db[s] # NoPos /\ store'.db[s] # NoPos)
               => store'.db[s].direction = store.db[s].direction
          /\ (store.cache[s] # NoPos /\ store'.cache[s] # NoPos)
               => store'.cache[s].direction = store.cache[s].direction
          /\ (store.db[s] = NoPos /\ store'.db[s] # NoPos)
               => \E t \in Threads : Opened(t, s) /\ store'.db[s].direction = th[t].order_dir
          /\ (store.cache[s] = NoPos /\ store'.cache[s] # NoPos)
               => \/ store'.cache[s] = store.db[s]
                  \/ \E t \in Threads :
                       Opened(t, s) /\ store'.cache[s].direction = th[t].order_dir
     /\ \A t \in Threads :
          (th'[t].pc = "send" /\ th[t].pc # "send" /\ th'[t].op \in {"open", "add"})
            => LET cur == load_position_state(store', t, FALSE).val[th'[t].sym]
               IN cur = NoPos \/ cur.direction = th'[t].order_dir]_vars
\* a filled open has put a record into the cache for a symbol the table does
\* not hold
C16_Witness ==
  \E s \in Symbols : /\ store.cacheValid = "fresh" /\ store.db[s] = NoPos
                     /\ store.cache[s] # NoPos

\* C17: when try_build_position, called for the first entry of an executor
\* cycle, returns None from its risk checks or its size estimate, no order
\* has been handed to send_order during the call.
C17_RejectBeforeOrder ==
  [][\A t \in Threads :
       (/\ th[t].handler = "executor" /\ th[t].idx = 1
        /\ th[t].pc = "build_check" /\ th'[t].pc = "exec")
         => ~th[t].placed]_vars

\* an estimate has returned its (contracts, price, leverage) to thread t
Allocated(t) == th[t].pc = "allocated" /\ ~th[t].alloc.ret.raised

\* floor(budget / marginPerContract), brought into [1, MAX_CONTRACTS_PER_ORDER]
\* and not above maxPossibleContracts unless that is below 1
ClampedFloor(a) ==
  LET q == QDiv(a.budget, a.margin_per_contract)
      floor == q.n \div q.d
      c == Min(floor, a.max_possible_contracts)
  IN IF c < 1 THEN 1 ELSE IF c > MAX_CONTRACTS_PER_ORDER THEN MAX_CONTRACTS_PER_ORDER ELSE c

\* C18: every estimate that returns gives a contract count within
\* [1, MAX_CONTRACTS_PER_ORDER] that is the floor of budget / margin per
\* contract clamped to that range and to the most the allocated capital can
\* margin; balance 1000, confidence 85, leverage 5, price 100 give 5.
C18_ContractsClamped ==
  \A t \in Threads :
    Allocated(t) =>
      LET i == th[t].alloc
          a == i.ret
      IN /\ a.contracts \in 1..MAX_CONTRACTS_PER_ORDER
         /\ a.contracts = ClampedFloor(a)
         /\ a.budget = QMul(a.allocated_capital, calculate_investment_ratio(i.confidence))
         /\ (/\ i.balance = 1000 /\ i.confidence = 85 /\ i.lev = 5
             /\ i.market_price = 100 /\ i.long_count + i.short_count = 0)
              => a.contracts = 5
\* the floor is below 1 and the result is 1
C18_Witness ==
  \E t \in Threads :
    /\ Allocated(t)
    /\ QInt(QDiv(th[t].alloc.ret.budget, th[t].alloc.ret.margin_per_contract)) = 0
    /\ th[t].alloc.ret.contracts = 1

\* C19: an estimate whose allocated capital cannot margin one contract
\* fails, and no order is sized above what the allocated capital can margin.
C19_InsufficientCapitalFails ==
  \A t \in Threads :
    Allocated(t) =>
      LET a == th[t].alloc.ret
      IN /\ a.max_possible_contracts < 1 => th[t].alloc.outcome # "send"
         /\ th[t].alloc.outcome = "send" => a.contracts <= a.max_possible_contracts

\* the fraction the spec names for the reserve of a short:
\* price x confidence x (1 + |STOP_LOSS_RATIO|)
SpecReserve(i) ==
  QMul(Q(i.market_price * i.confidence, 1),
       QAdd(Q(1, 1), Q(-STOP_LOSS_RATIO.n, STOP_LOSS_RATIO.d)))
Available(i) == QMul(Q(i.balance, 1), QSub(Q(1, 1), CAPITAL_BUFFER_RATIO))

\* C20 as stated: a short estimate reserves price x confidence x
\* (1 + |STOP_LOSS_RATIO|) and allocates no more than the buffered balance
\* less that reserve.
C20_Original ==
  \A t \in Threads :
    (Allocated(t) /\ th[t].alloc.direction = "sell") =>
      /\ th[t].alloc.ret.reserved_amount = SpecReserve(th[t].alloc)
      /\ QLeq(th[t].alloc.ret.allocated_capital,
              QSub(Available(th[t].alloc), SpecReserve(th[t].alloc)))
\* C20: with at least one signal counted, a short estimate reserves half of
\* the buffered balance times (1 + |STOP_LOSS_RATIO|) and allocates the
\* short signals' share of the rest, never more than the rest; with no
\* signal counted it reserves nothing and allocates the buffered balance.
C20_ShortReserve ==
  \A t \in Threads :
    (Allocated(t) /\ th[t].alloc.direction = "sell") =>
      LET i == th[t].alloc
          a == i.ret
          half == QMul(Available(i), Q(1, 2))
          held_back == QMul(half, QAdd(Q(1, 1), Q(-STOP_LOSS_RATIO.n, STOP_LOSS_RATIO.d)))
      IN IF i.long_count + i.short_count = 0
         THEN a.reserved_amount = Q(0, 1) /\ a.allocated_capital = Available(i)
         ELSE /\ a.reserved_amount = held_back
              /\ a.allocated_capital
                   = QMul(QSub(Available(i), held_back),
                          Q(i.short_count, i.long_count + i.short_count))
              /\ QLeq(a.allocated_capital, QSub(Available(i), a.reserved_amount))
C20_Witness ==
  \E t \in Threads :
    /\ Allocated(t) /\ th[t].alloc.direction = "sell"
    /\ th[t].alloc.short_count > 0 /\ th[t].alloc.balance > 0
    /\ th[t].alloc.ret.reserved_amount.n > 0

\* clamp(confidence / 100 x maxRatio, minRatio, maxRatio)
ClampedRatio(confidence) ==
  LET r == Q(confidence * MAX_SINGLE_POSITION_RATIO.n, 100 * MAX_SINGLE_POSITION_RATIO.d)
  IN IF QLeq(r, MIN_SINGLE_POSITION_RATIO) THEN MIN_SINGLE_POSITION_RATIO
     ELSE IF QLeq(MAX_SINGLE_POSITION_RATIO, r) THEN MAX_SINGLE_POSITION_RATIO
     ELSE r

\* C21: calculate_investment_ratio returns the clamped ratio for every
\* confidence, also below 0 and above 100; a lower confidence never gives a
\* higher ratio; confidence 100 gives MAX_SINGLE_POSITION_RATIO and
\* confidence 0 gives MIN_SINGLE_POSITION_RATIO.
C21_RatioClamped ==
  \A t \in Threads :
    th[t].pc = "ratio" =>
      LET c == th[t].alloc.confidence
          r == th[t].alloc.ratio
      IN /\ r = ClampedRatio(c)
         /\ QLeq(MIN_SINGLE_POSITION_RATIO, r) /\ QLeq(r, MAX_SINGLE_POSITION_RATIO)
         /\ \A c2 \in RatioConfs :
              c2 <= c => QLeq(calculate_investment_ratio(c2), r)
         /\ c = 100 => r = MAX_SINGLE_POSITION_RATIO
         /\ c = 0 => r = MIN_SINGLE_POSITION_RATIO
\* a confidence above 100 has been given and the ratio is the maximum
C21_Witness ==
  \E t \in Threads :
    /\ th[t].pc = "ratio" /\ th[t].alloc.confidence > 100
    /\ th[t].alloc.ratio = MAX_SINGLE_POSITION_RATIO

\* C22: neither reserve is ever negative; the reserve row goes down only to
\* zero and only in a step whose transfer reported success; and
\* process_profit_transfer changes the file only by a reset to zero after a
\* transfer that reported success, so a failed transfer leaves it as it was.
C22_ResetOnlyOnSuccess ==
  [][/\ reserve' >= 0
     /\ reserve' < reserve
          => /\ reserve' = 0
             /\ \E t \in Threads : th'[t].ledger.kind = "tail"
                                   /\ th'[t].ledger.transfer = "ok"
     /\ \A t \in Threads :
          /\ th'[t].ledger.kind \in {"transfer", "add"} => th'[t].ledger.after >= 0
          /\ th'[t].ledger.kind = "transfer" =>
               LET l == th'[t].ledger
               IN /\ l.after # l.before => (l.after = 0 /\ l.attempted /\ l.ok)
                  /\ (l.attempted /\ ~l.ok) => l.after = l.before]_vars
\* a transfer of a reserve at the threshold has failed and the reserve is kept
C22_Witness ==
  \E t \in Threads :
    /\ th[t].ledger.kind = "transfer" /\ th[t].ledger.attempted /\ ~th[t].ledger.ok
    /\ th[t].ledger.before >= MIN_PROFIT_TO_RESERVE
    /\ th[t].ledger.after = th[t].ledger.before

\* C23: when the tail of a profitable close or reduce leaves the reserve at
\* or above MIN_PROFIT_TO_RESERVE, a transfer has been attempted; while the
\* reserve is below it, none is.
C23_SweepAtThreshold ==
  \A t \in Threads :
    (th[t].ledger.kind = "tail" /\ th[t].ledger.has_price) =>
      LET l == th[t].ledger
          credited == IF l.pnl > 0 THEN l.before + l.pnl ELSE l.before
      IN /\ (l.pnl > 0 /\ credited >= MIN_PROFIT_TO_RESERVE)
              => l.transfer \in {"ok", "failed"}
         /\ credited < MIN_PROFIT_TO_RESERVE => l.transfer = "none"

\* thread t has, in this step, called a mutator of the store that got as far
\* as computing the changed record (it went on to _save_position_state)
MutatorComputed(t) ==
  /\ th[t].pc # "blocked"
  /\ \/ th'[t].pc = "blocked" /\ th'[t].where = "save"
     \/ store'.db # store.db

\* C24: a mutator that computes a changed record has read the table for it:
\* the read cache was not what its load_position_state() call was answered
\* from.
C24_MutatorsReadTable ==
  [][\A t \in Threads : MutatorComputed(t) => store.cacheValid # "fresh"]_vars

\* C25: the step that follows a confirmed open, add, reduce or close order
\* appends the row of that symbol and operation to the trade log, and no
\* step changes or removes a row that is there.
C25_TransitionLogged ==
  [][/\ \A t \in Threads :
          AfterSend(t, "ok")
            => tradeLog' = Append(tradeLog, [symbol |-> th[t].sym, operation |-> th[t].op])
     /\ Len(tradeLog') >= Len(tradeLog)
     /\ SubSeq(tradeLog', 1, Len(tradeLog)) = tradeLog]_vars

\* C26: main_loop stops because of errors only when the last max_errors
\* passes in a row raised out of the body; error_count is the length of the
\* current run of such passes, so a pass that did not raise out of the body
\* leaves it at zero, whether or not run_position_monitor, run_selector or
\* run_order_executor raised inside it.
C26_HaltAfterConsecutiveErrors ==
  \A t \in Threads :
    th[t].handler = "main_loop" =>
      LET m == th[t].loop
      IN /\ m.error_count = m.streak
         /\ m.halt = "errors" <=> m.streak >= max_errors
         /\ (m.halt = "no" /\ ~m.body_raises) => m.error_count = 0
\* the loop has stopped after max_errors passes in a row that raised
C26_Witness ==
  \E t \in Threads :
    /\ th[t].pc = "halted" /\ th[t].loop.halt = "errors"
    /\ th[t].loop.streak = max_errors

\* C27: the wait after the k-th attempt of a send_order call is
\* min(2^(k-1), 8) seconds when that attempt got a response that is no dict
\* and when it failed in another retryable way.
C27_BackoffDoubles ==
  \A t \in Threads :
    (th[t].pc \in {"retrying", "sent"} /\ th[t].where \in {"nondict", "dict"}) =>
      th[t].slept = Min(2 ^ (th[t].attempt - 1), 8)

\* thread t, in this step, has handle_removed_position decide about the
\* held position of the monitor's snapshot it has come to, with a market price
HrpDecides(t) ==
  /\ th[t].pc = "hrp" /\ th[t].idx <= Len(SymOrder)
  /\ th[t].snapshot[SymOrder[th[t].idx]] # NoPos
  /\ th[t].market[SymOrder[th[t].idx]] # 0
HrpPos(t) == th[t].snapshot[SymOrder[th[t].idx]]
HrpSignal(t) == th[t].latest[SymOrder[th[t].idx]]
HrpProfit(t) == Pnl(HrpPos(t).direction, th[t].market[SymOrder[th[t].idx]], HrpPos(t).price, 1)
HrpDecision(t) ==
  IF th'[t].pc = "close_begin" /\ th'[t].ret = "hrp_close" THEN "close"
  ELSE IF th'[t].pc = "reduce_begin" /\ th'[t].ret = "hrp_reduce" THEN "reduce"
  ELSE "none"

\* C28 as stated: a held position with no signal is closed when its PnL is
\* positive or REQUIRE_PROFIT_TO_CLOSE is false, otherwise reduced while
\* reduce_times < MAX_REDUCE_TIMES and closed at the cap.
C28_Original ==
  [][\A t \in Threads :
       (HrpDecides(t) /\ HrpSignal(t) = 0) =>
         HrpDecision(t) =
           IF HrpProfit(t) > 0 \/ ~REQUIRE_PROFIT_TO_CLOSE THEN "close"
           ELSE IF HrpPos(t).reduce_times < MAX_REDUCE_TIMES THEN "reduce"
           ELSE "close"]_vars
\* C28: the same, except that a short position is closed where a long one
\* would be reduced.
C28_AbsentSignal ==
  [][\A t \in Threads :
       (HrpDecides(t) /\ HrpSignal(t) = 0) =>
         HrpDecision(t) =
           IF HrpProfit(t) > 0 \/ ~REQUIRE_PROFIT_TO_CLOSE THEN "close"
           ELSE IF HrpPos(t).reduce_times < MAX_REDUCE_TIMES /\ HrpPos(t).direction = "buy"
           THEN "reduce"
           ELSE "close"]_vars
\* a short position without signal and without profit, below the reduce cap,
\* is being closed by handle_removed_position
C28_Witness ==
  \E t \in Threads :
    /\ th[t].pc = "close_begin" /\ th[t].ret = "hrp_close"
    /\ th[t].pos.direction = "sell" /\ th[t].pos.reduce_times < MAX_REDUCE_TIMES
    /\ th[t].latest[th[t].sym] = 0
    /\ Pnl("sell", th[t].market[th[t].sym], th[t].pos.price, 1) <= 0

\* thread t has a decision about a held position with a live price whose
\* signal has a confidence of OPEN_THRESHOLD or more and for which neither
\* the add rule nor the take-profit rule nor the stop-loss rule matches
HeldAboveThreshold(t) ==
  /\ th[t].pc \in {"selected", "synced"}
  /\ th[t].pos # NoPos /\ th[t].price > 0 /\ th[t].conf >= OPEN_THRESHOLD
  /\ ~RuleHolds(2, th[t].pos, th[t].dir, th[t].conf, th[t].price)
  /\ ~RuleHolds(3, th[t].pos, th[t].dir, th[t].conf, th[t].price)
  /\ ~RuleHolds(4, th[t].pos, th[t].dir, th[t].conf, th[t].price)

\* C29 as stated: for such a position no operation is chosen, by
\* process_symbol or by handle_removed_position, also when the signal's
\* confidence is below the stored one.
C29_Original ==
  \A t \in Threads : HeldAboveThreshold(t) => th[t].op = "none"
\* C29: for such a position process_symbol chooses no operation;
\* handle_removed_position chooses none unless the signal's confidence is
\* below the stored one, and then it reduces a long position that is below
\* the reduce cap and closes any other.
C29_NoOpAtThreshold ==
  \A t \in Threads :
    HeldAboveThreshold(t) =>
      IF th[t].pc = "selected" \/ th[t].conf >= th[t].pos.confidence
      THEN th[t].op = "none"
      ELSE th[t].op = IF th[t].pos.direction = "buy"
                         /\ th[t].pos.reduce_times < MAX_REDUCE_TIMES
                      THEN "reduce" ELSE "close"
\* handle_removed_position has started a reduce for a signal at the threshold
\* and below the stored confidence
C29_Witness ==
  \E t \in Threads :
    /\ HeldAboveThreshold(t) /\ th[t].pc = "synced"
    /\ th[t].conf < th[t].pos.confidence /\ th[t].op = "reduce"

\* thread t has a decision, of process_symbol or of
\* check_take_profit_stop_loss, about a long position whose return ratio is
\* at or below STOP_LOSS_RATIO and whose reduce_times is below the cap
LongAtStopLoss(t) ==
  /\ th[t].pc \in {"selected", "checked"}
  /\ th[t].pos # NoPos /\ th[t].pos.direction = "buy" /\ th[t].price > 0
  /\ StopLossHit(th[t].pos, th[t].price)
  /\ th[t].pos.reduce_times < MAX_REDUCE_TIMES

\* C30 as stated: for such a position the operation is reduce, in the
\* signal-driven decision and in the monitor's pass.
C30_Original ==
  \A t \in Threads : LongAtStopLoss(t) => th[t].op = "reduce"
\* C30: for such a position process_symbol chooses reduce unless the add
\* rule, which comes first, matches, and then add; it never chooses close;
\* check_take_profit_stop_loss closes the position.
C30_StopLossBelowCap ==
  \A t \in Threads :
    LongAtStopLoss(t) =>
      IF th[t].pc = "checked" THEN th[t].op = "close"
      ELSE th[t].op = (IF RuleHolds(2, th[t].pos, th[t].dir, th[t].conf, th[t].price)
                       THEN "add" ELSE "reduce")
\* the monitor's pass has closed such a position
C30_Witness ==
  \E t \in Threads :
    LongAtStopLoss(t) /\ th[t].pc = "checked" /\ th[t].op = "close"


\* ------------------------------------ modules/monitor/position_monitor.py
\* The monitor of output/positions.json. Prices are in tenths of a USDT and
\* ratios in thousandths: FALL_RATIO 0.05 is 50.
FALL_RATIO == 50
MAX_LOSS_RATIO == 30
RETRACE_PROFIT_RATIO == 50
RETRACE_DROP_RATIO == 10

WatchEntry == 1000
WatchDirs == {"long", "short"}
WatchPrices == {900, 940, 965, 985, 1000, 1020, 1040, 1100}
WatchHighs == {WatchEntry, 1100}
WatchLows == {WatchEntry, 900}
\* the close of the last one-minute candle; 0: get_kline_1m returned []
WatchKlines == {0, 1000, 1100}
\* the strategy's {"TP_RATIO", "SL_RATIO"}; the first is the default
WatchConfs == {[TP_RATIO |-> 20, SL_RATIO |-> 10], [TP_RATIO |-> 100, SL_RATIO |-> 20]}
WatchPos == [direction : WatchDirs, entry_price : {WatchEntry}, size : {1},
             highest : WatchHighs, lowest : WatchLows]
NoWatchPos == [direction |-> "none", entry_price |-> 0, size |-> 0,
               highest |-> 0, lowest |-> 0]

\* place_order(symbol, side, size, mgn_mode="isolated") against
\* modules.okx_client.place_order(symbol, size, side, pos_side): the keyword
\* mgn_mode is no parameter of the function, the call raises TypeError
place_order_isolated(side, size) == [raised |-> TRUE, code |-> "none"]

\* the five exit conditions of close_position, in the order of their tests
WatchGain(direction, entry, price) ==
  IF direction = "long" THEN price - entry ELSE entry - price
ExitCond(k, pos, price, kline, conf) ==
  LET direction == pos.direction
      entry == pos.entry_price
      highest == IF pos.highest > price THEN pos.highest ELSE price
      lowest == IF pos.lowest < price THEN pos.lowest ELSE price
      retrace_from == IF direction = "long" THEN highest ELSE lowest
      peak == WatchGain(direction, entry, retrace_from)
      current == WatchGain(direction, entry, price)
  IN CASE k = 1 -> /\ kline # 0 /\ direction = "long"
                   /\ (kline - price) * 1000 >= FALL_RATIO * kline
       [] k = 2 -> current * 1000 < -(MAX_LOSS_RATIO * entry)
       [] k = 3 -> /\ peak * 1000 > RETRACE_PROFIT_RATIO * entry
                   /\ (peak - current) * 1000 > RETRACE_DROP_RATIO * entry
       [] k = 4 -> IF direction = "long"
                   THEN price * 2000 >= highest * (2000 - conf.TP_RATIO)
                   ELSE price * 2000 <= lowest * (2000 + conf.TP_RATIO)
       [] k = 5 -> IF direction = "long"
                   THEN price * 1000 <= highest * (1000 - conf.SL_RATIO)
                   ELSE price * 1000 >= lowest * (1000 + conf.SL_RATIO)
ExitReason(k) ==
  CASE k = 1 -> "FALL" [] k = 2 -> "FORCE_LOSS" [] k = 3 -> "RETRACE"
    [] k = 4 -> "TP" [] k = 5 -> "SL"
ExitLevel(k) ==
  CASE k = 1 -> "alert" [] k = 2 -> "alert" [] k = 3 -> "warn"
    [] k = 4 -> "info" [] k = 5 -> "alert"

\* `reason` at line 127 of close_position: each of the first three tests
\* assigns reason when its condition holds; TP and SL are tested, as if / elif,
\* under `if not reason:`
\* (first_exit_reason lets the first condition that holds decide)
first_exit_reason(pos, price, kline, conf) ==
  IF \E k \in 1..5 : ExitCond(k, pos, price, kline, conf)
  THEN CHOOSE k \in 1..5 : /\ ExitCond(k, pos, price, kline, conf)
                           /\ \A j \in 1..(k - 1) : ~ExitCond(j, pos, price, kline, conf)
  ELSE 0
exit_reason(pos, price, kline, conf) ==
  LET r1 == IF ExitCond(1, pos, price, kline, conf) THEN 1 ELSE 0
      r2 == IF ExitCond(2, pos, price, kline, conf) THEN 2 ELSE r1
      r3 == IF ExitCond(3, pos, price, kline, conf) THEN 3 ELSE r2
  IN IF r3 # 0 THEN r3
     ELSE IF ExitCond(4, pos, price, kline, conf) THEN 4
     ELSE IF ExitCond(5, pos, price, kline, conf) THEN 5
     ELSE 0

\* close_position(pos, price, kline, conf): the record left in
\* positions.json, the reason and the side chosen, the order's fate, the
\* notification appended and the value returned ("raised": an exception
\* leaves the function)
close_position(pos, price, kline, conf) ==
  LET highest == IF pos.highest > price THEN pos.highest ELSE price
      lowest == IF pos.lowest < price THEN pos.lowest ELSE price
      updated == [pos EXCEPT !.highest = highest, !.lowest = lowest]
      k == exit_reason(pos, price, kline, conf)
      side == IF pos.direction = "long" THEN "sell" ELSE "buy"
      res == place_order_isolated(side, pos.size)
  IN IF k = 0
     THEN [file |-> updated, reason |-> "none", side |-> "none", level |-> "info",
           ordered |-> FALSE, accepted |-> FALSE, notified |-> "none", result |-> ""]
     ELSE IF res.raised
     THEN [file |-> updated, reason |-> ExitReason(k), side |-> side,
           level |-> ExitLevel(k), ordered |-> TRUE, accepted |-> FALSE,
           notified |-> "none", result |-> "raised"]
     ELSE IF res.code = "0"
     THEN [file |-> NoWatchPos, reason |-> ExitReason(k), side |-> side,
           level |-> ExitLevel(k), ordered |-> TRUE, accepted |-> TRUE,
           notified |-> ExitReason(k), result |-> "ok"]
     ELSE [file |-> updated, reason |-> ExitReason(k), side |-> side,
           level |-> ExitLevel(k), ordered |-> TRUE, accepted |-> FALSE,
           notified |-> "none", result |-> "failed"]

\* clear_expired_positions(timeout_min) for a file that holds pos
clear_expired_positions(pos, expired) ==
  IF expired
  THEN [file |-> NoWatchPos, reason |-> "EXPIRE", side |-> "none", level |-> "warn",
        ordered |-> FALSE, accepted |-> FALSE, notified |-> "EXPIRE", result |-> "cleared"]
  ELSE [file |-> pos, reason |-> "none", side |-> "none", level |-> "info",
        ordered |-> FALSE, accepted |-> FALSE, notified |-> "none", result |-> ""]

\* one round of the loop `for pos in load_positions():` of monitor_positions
\* with a price (`if price:`)
WatchCall(t) ==
  /\ th[t].pc = "idle"
  /\ \E pos \in WatchPos, price \in WatchPrices, kline \in WatchKlines, conf \in WatchConfs :
       SetLocal(t, [L0 EXCEPT !.pc = "watched", !.handler = "monitor",
                      !.watch = [kind |-> "close", pos |-> pos, price |-> price,
                                 kline |-> kline, conf |-> conf,
                                 ret |-> close_position(pos, price, kline, conf)]])
  /\ UNCHANGED <<store, tradeLog, reserve, closed, last>>

\* `expired = clear_expired_positions(timeout)` of monitor_positions
ExpireCall(t) ==
  /\ th[t].pc = "idle"
  /\ \E pos \in WatchPos, expired \in BOOLEAN :
       SetLocal(t, [L0 EXCEPT !.pc = "watched", !.handler = "monitor",
                      !.watch = [kind |-> "expire", pos |-> pos, price |-> 0,
                                 kline |-> 0, conf |-> [TP_RATIO |-> 20, SL_RATIO |-> 10],
                                 ret |-> clear_expired_positions(pos, expired)]])
  /\ UNCHANGED <<store, tradeLog, reserve, closed, last>>

WatchReturn(t) ==
  /\ th[t].pc = "watched"
  /\ SetLocal(t, L0)
  /\ UNCHANGED <<store, tradeLog, reserve, closed, last>>

NextWatch == WatchCall("main") \/ ExpireCall("main") \/ WatchReturn("main")

SpecWatch == InitSend /\ [][NextWatch]_vars

\* thread t has evaluated close_position for a position
Watched(t) == th[t].pc = "watched" /\ th[t].watch.kind = "close"

\* C31: the reason close_position settles on is that of the first of the
\* five conditions, in the order of their tests, that holds, and no reason
\* when none holds.
C31_FirstExitWins ==
  \A t \in Threads :
    Watched(t) =>
      LET w == th[t].watch
          k == first_exit_reason(w.pos, w.price, w.kline, w.conf)
      IN w.ret.reason = (IF k = 0 THEN "none" ELSE ExitReason(k))

\* C35: close_position settles on the reason TP only for a position with a
\* positive unrealized gain, and it chooses no exit and sends no order for a
\* position whose price, highest and lowest all equal its entry price.
C35_TakeProfitOnGain ==
  \A t \in Threads :
    Watched(t) =>
      LET w == th[t].watch
      IN /\ w.ret.reason = "TP"
              => WatchGain(w.pos.direction, w.pos.entry_price, w.price) > 0
         /\ (/\ w.price = w.pos.entry_price /\ w.pos.highest = w.pos.entry_price
             /\ w.pos.lowest = w.pos.entry_price)
              => (w.ret.reason = "none" /\ ~w.ret.ordered)

\* C32: during one call of send_order at most one placement response carries
\* an order id, and a call that returns None has seen none.
C32_OneAcceptedOrder ==
  \A t \in Threads :
    /\ th[t].pc \in {"sending", "sent"} => th[t].accepted <= 1
    /\ (th[t].pc = "sent" /\ th[t].result = "fail") => th[t].accepted = 0

\* the size the table holds for symbol s (0 without a record)
StoredSize(st, s) == IF st.db[s] = NoPos THEN 0 ELSE st.db[s].contracts

\* C33: the step an operation takes after its order was confirmed changes the
\* stored size of the symbol by the contracts of that order: up for an open
\* or an add, down for a reduce, to nothing for a close; and the step
\* handle_removed_position takes after try_reduce_position returned leaves
\* the stored size as try_reduce_position left it.
C33_SizeFollowsFills ==
  [][\A t \in Threads :
       /\ AfterSend(t, "ok")
            => StoredSize(store', th[t].sym)
                 = CASE th[t].op \in {"open", "add"}
                          -> StoredSize(store, th[t].sym) + th[t].contracts
                     [] th[t].op = "reduce"
                          -> Max(0, StoredSize(store, th[t].sym) - th[t].contracts)
                     [] th[t].op = "close" -> 0
       /\ (th[t].pc = "hrp_reduce_after" /\ th'[t] # th[t])
            => StoredSize(store', th[t].sym) = StoredSize(store, th[t].sym)]_vars

\* C34: the step try_reduce_position takes after its reduce order was
\* confirmed leaves the symbol's record, unless the reduce took the whole
\* size, with the previous reduce_times plus 1; no stored reduce_times is above
\* MAX_REDUCE_TIMES.
C34_ReduceCounted ==
  [][/\ \A t \in Threads :
          (AfterSend(t, "ok") /\ th[t].op = "reduce")
            => \/ StoredSize(store, th[t].sym) <= th[t].contracts
                    /\ store'.db[th[t].sym] = NoPos
               \/ /\ store'.db[th[t].sym] # NoPos
                  /\ store'.db[th[t].sym].reduce_times
                       = store.db[th[t].sym].reduce_times + 1
     /\ \A s \in Symbols : store'.db[s].reduce_times <= MAX_REDUCE_TIMES]_vars

\* C36: a call of the monitor that leaves positions.json without the
\* position's record has had an order for the position's size accepted.
C36_RemovedAfterClose ==
  \A t \in Threads :
    (th[t].pc = "watched" /\ th[t].watch.ret.file = NoWatchPos)
      => th[t].watch.ret.accepted


\* -------------------------------- opens against a table of several symbols
\* The open entries of one run of run_order_executor against a table that
\* holds up to three symbols, for a configured MAX_HOLDING_SYMBOLS of 1 or 2.
\* limit.table is the position_state table, limit.last the last entry's
\* symbol, direction, the snapshot it was checked on and what became of it.
LimitSymbols == {"X", "Y", "Z"}
LimitMax == {1, 2}
LimitPos(direction) ==
  [direction |-> direction, contracts |-> 1, price |-> EntryPrice, confidence |-> 4,
   add_times |-> 0, reduce_times |-> 0]
LimitTables == [LimitSymbols -> {NoPos, LimitPos("buy"), LimitPos("sell")}]

LimitStart(t) ==
  /\ th[t].pc = "idle"
  /\ \E table \in LimitTables, max_symbols \in LimitMax :
       /\ Cardinality(Held(table)) <= max_symbols
       /\ SetLocal(t, [L0 EXCEPT !.pc = "limit", !.handler = "executor",
                        !.limit = [kind |-> "cycle", table |-> table,
                                   max_symbols |-> max_symbols,
                                   last |-> [outcome |-> "none"]]])
  /\ UNCHANGED <<store, tradeLog, reserve, closed, last>>

\* try_build_position for one open entry: the snapshot, the close of a
\* position held in the opposite direction, the risk check, the order and
\* update_position_state
LimitOpen(t) ==
  /\ th[t].pc = "limit"
  /\ \E symbol \in LimitSymbols, direction \in Dirs, filled \in BOOLEAN :
       LET l == th[t]
           position_state == l.limit.table
           current_pos == position_state[symbol]
           closes_first == current_pos # NoPos /\ current_pos.direction # direction
           ok == check_position_conflict_and_limit(symbol, direction, position_state,
                                                   l.limit.max_symbols)
           r == update_position_state(store, t, "X", direction, 1, EntryPrice, 4,
                                      [add_times |-> 0, reduce_times |-> 0], FALSE)
           done(outcome) == [symbol |-> symbol, direction |-> direction,
                             snapshot |-> position_state, outcome |-> outcome]
       IN IF closes_first /\ filled
          THEN \* the close was filled: remove_position
               LET c == remove_position(store, t, "X")
               IN IF c.blocked
                  THEN /\ SetLocal(t, [Blocked(l, c.where) EXCEPT
                                         !.limit.last = done("closing")])
                       /\ store' = c.st
                  ELSE /\ SetLocal(t, [l EXCEPT
                            !.limit.table = [position_state EXCEPT ![symbol] = NoPos],
                            !.limit.last = done("rejected")])
                       /\ store' = c.st
          ELSE IF ~ok
          THEN /\ SetLocal(t, [l EXCEPT !.limit.last = done("rejected")])
               /\ UNCHANGED store
          ELSE IF ~filled
          THEN /\ SetLocal(t, [l EXCEPT !.limit.last = done("unfilled")])
               /\ UNCHANGED store
          ELSE IF r.blocked
          THEN /\ SetLocal(t, [Blocked(l, r.where) EXCEPT !.limit.last = done("filled")])
               /\ store' = r.st
          ELSE /\ SetLocal(t, [l EXCEPT
                    !.limit.table = [position_state EXCEPT ![symbol] =
                         IF current_pos = NoPos THEN LimitPos(direction) ELSE current_pos],
                    !.limit.last = done("filled")])
               /\ store' = r.st
  /\ UNCHANGED <<tradeLog, reserve, closed, last>>

LimitEnd(t) ==
  /\ th[t].pc = "limit"
  /\ th[t].limit.last.outcome # "none"
  /\ SetLocal(t, L0)
  /\ UNCHANGED <<store, tradeLog, reserve, closed, last>>

NextLimit == LimitStart("main") \/ LimitOpen("main") \/ LimitEnd("main")

SpecLimit == InitSend /\ [][NextLimit]_vars

\* the last open entry of thread t was for a symbol without a record, checked
\* on a table that held max_symbols symbols
OpenAtLimit(t) ==
  /\ th[t].limit.kind = "cycle" /\ th[t].limit.last.outcome # "none"
  /\ th[t].limit.last.snapshot[th[t].limit.last.symbol] = NoPos
  /\ Cardinality(Held(th[t].limit.last.snapshot)) >= th[t].limit.max_symbols

\* C37: the table never holds more than MAX_HOLDING_SYMBOLS symbols, and an
\* open for a symbol without a record is rejected, with no order sent, when
\* the table already holds that many, whatever number of opens the cycle has
\* gone through.
C37_HoldingLimit ==
  \A t \in Threads :
    th[t].limit.kind = "cycle" =>
      /\ Cardinality(Held(th[t].limit.table)) <= th[t].limit.max_symbols
      /\ OpenAtLimit(t) => th[t].limit.last.outcome = "rejected"
\* an open for a new symbol has been rejected on a full table
C37_Witness ==
  \E t \in Threads : OpenAtLimit(t) /\ th[t].limit.last.outcome = "rejected"

\* C38: the order a thread is about to send for a reduce or a close is
\* reduce-only and on the side opposite to the direction of the record it
\* read; the order for an open or an add is not reduce-only, on the side of
\* the signal, and the symbol's record, if there is one, has that direction.
C38_OrderSides ==
  \A t \in Threads :
    th[t].pc = "send" =>
      LET body == place_order_body(th[t].order_dir, th[t].contracts, th[t].reduce_only)
      IN /\ th[t].op \in {"reduce", "close"}
              => /\ body.reduceOnly
                 /\ th[t].pos # NoPos
                 /\ body.side = (IF th[t].pos.direction = "buy" THEN "sell" ELSE "buy")
         /\ th[t].op \in {"open", "add"}
              => /\ ~body.reduceOnly
                 /\ body.side = th[t].dir
                 /\ Current(t) = NoPos \/ Current(t).direction = th[t].dir
\* a close order for a short position is about to be sent: a reduce-only buy
C38_Witness ==
  \E t \in Threads :
    /\ th[t].pc = "send" /\ th[t].op = "close" /\ th[t].pos.direction = "sell"
    /\ th[t].order_dir = "buy" /\ th[t].reduce_only

\* C39: try_close_position and try_reduce_position, once their order was
\* confirmed and the store updated, return the trade record: the tail that
\* follows does not end in a return of None.
C39_FilledExitReturnsTrade ==
  \A t \in Threads : th[t].ledger.kind = "tail" => th[t].ledger.trade

\* C40: the step that follows a confirmed order adds exactly one row to the
\* trade log, and the step handle_removed_position takes after
\* try_close_position or try_reduce_position returned adds none.
C40_OneLogRowPerFill ==
  [][\A t \in Threads :
       /\ AfterSend(t, "ok") => Len(tradeLog') = Len(tradeLog) + 1
       /\ (th[t].pc \in {"hrp_close_after", "hrp_reduce_after"} /\ th'[t] # th[t])
            => tradeLog' = tradeLog]_vars

====
